---- MODULE Spec2Model ----
(***************************************************************************)
(* Layered frame-buffer compositing of the kernel's graphic module         *)
(* (src/src/graphic/mod.rs) and the print path around it (src/src/io).     *)
(*                                                                         *)
(* Coordinates follow the source: a surface is indexed [row][col], "x" is  *)
(* the row (bounded by HEIGHT) and "y" the column (bounded by WIDTH).      *)
(* A layer cell is the pair <<colour, occupied>> of Writer::data.          *)
(***************************************************************************)
EXTENDS Integers, Sequences, FiniteSets, TLC

\* The grid of the source is 800 x 600; the model keeps the same code over a
\* small grid.
HEIGHT == 2
WIDTH == 2
\* Number of layers pushed into GL at start-up.
NumLayers == 3
\* Numbers of operations of each kind explored on the layer stack.
MaxPaints == 2
MaxEnables == 1
MaxRenders == 2
\* Bits per channel of the default mask layout of a 32-bit bitmap (8 in the
\* source, where a sample is a u32), and the largest value of the i32 that
\* counts a shift (2^31 - 1 in the source).
ChanBits == 1
I32Max == 7
\* Number of pixels of the bitmaps handed to display_img_32rgba.
MaxPixels == 1
\* Changes the layer owner makes while render runs.
MaxOwner == 2
\* Drawing calls made in a row on the surface and on a layer.
MaxCalls == 2

\* An Rgb888 colour is the triple <<r, g, b>> of its 8-bit channels.
DEFAULT_RGB888 == <<0, 0, 0>>
RED == <<255, 0, 0>>
BLUE == <<0, 0, 255>>
\* The colours callers draw with.
Colors == {RED, BLUE}
\* Content of the frame buffer before the first write: no value that a layer
\* holds.
VRAM == <<256, 256, 256>>

Rows == 0 .. (HEIGHT - 1)
Cols == 0 .. (WIDTH - 1)
Layers == 0 .. (NumLayers - 1)
Top == NumLayers - 1

\* Row and column spans <<start, end>> handed to render: the whole axis, its
\* first cell, its last cell, an empty span, a span ending past the surface
\* and a span starting past the last cell.
RowSpans == {<<0, HEIGHT>>, <<0, 1>>, <<HEIGHT - 1, HEIGHT>>, <<1, 1>>,
             <<0, HEIGHT + 1>>, <<HEIGHT, HEIGHT>>}
ColSpans == {<<0, WIDTH>>, <<0, 1>>, <<WIDTH - 1, WIDTH>>, <<1, 1>>,
             <<0, WIDTH + 1>>, <<WIDTH, WIDTH>>}

min(a, b) == IF a < b THEN a ELSE b

VARIABLES
    GL,        \* the layer stack: GL[l] is a Writer [data, enable]
    GD,        \* the physical surface: GD[x][y] is a colour
    nops,      \* numbers of paint / enable / render operations applied so far
    last,      \* the last operation applied to GL / GD
    wr,        \* one Writer (a layer) driven through its own methods
    lop,       \* the last method called on wr, with its arguments
    ipc,       \* position inside display_img_32rgba
    cm,        \* the channel masks display_img_32rgba works with
    msk,       \* rm / gm / bm / am: what is left of the mask being scanned
    sh,        \* rr, gr, br, ar: the shift counted for each channel
    img,       \* the decoded bitmap: n pixels, k of them consumed
    diag,      \* number of diagnostics sent to qemu_print
    ppc,       \* print path: position of the kernel ("main") and of the
               \* interrupt handler ("irq", "idle" while no interrupt is served)
    back,      \* where the kernel continues after the print it is in
    ifl,       \* the processor's interrupt flag: TRUE when interrupts are enabled
    vmode,     \* VIDEO_MODE: "Text" or "Graphic"
    holder,    \* for each spin lock, who holds it: "none", "main" or "irq"
    saved,     \* without_interrupts: the interrupt flag each context found
    rpc,       \* locking view of render: the statement render is at
    rk,        \* the loop variable `layer` of render
    rgraph,    \* render's working copy `graph`
    reg,       \* the region render was called with
    lkh,       \* for each layer's Mutex, who holds it: "none", "render", "owner"
    acq,       \* the layers whose lock this call of render has taken, in order
    opc,       \* the layer owner's position: "idle", "locked", "drawn"
    own,       \* number of changes the layer owner has made
    omid,      \* the owner changed a layer between two scans of this render
    smp,       \* the sample of the pixel a one-pixel 32-bit bitmap holds
    dcall,     \* the last drawing call made on the surface or on the layer
    ncall,     \* number of drawing calls made
    bga,       \* the display adapter: the latched register index and the registers
    plog,      \* the writes made to the adapter's two ports, in order
    bpc,       \* number of port writes bga_enter_wide has made
    mapped,    \* the frame buffer window is mapped
    fpc,       \* position inside display_font_string: "idle", "loop", "done"
    fargs,     \* the arguments display_font_string was called with
    fstr,      \* the characters s.chars() has not yielded yet
    pen,       \* the local y_pos of display_font_string
    flog,      \* the calls of display_font made: <<character, pen column>>
    bump,      \* the BumpAllocator: heap_start, heap_end, next, allocations
    binit,     \* BumpAllocator::init has been called
    live,      \* the blocks handed out by alloc and not freed yet
    bret,      \* the last allocator call: its layout, its result, and next and
               \* allocations as they were before it
    vga,       \* the vga_buffer::Writer: cursor and character buffer
    vcell,     \* the cell <<row, col>> the last printable byte indexed
    vpanic,    \* indexing the character buffer panicked
    ocall,     \* the last call made on a layer of GL, or render
    nocc       \* number of such calls made

stackVars == <<GL, GD, nops, last>>
layerVars == <<wr, lop>>
imgVars == <<ipc, cm, msk, sh, img, diag>>
printVars == <<ppc, back, ifl, vmode, holder, saved>>
lockVars == <<rpc, rk, rgraph, reg, lkh, acq, opc, own, omid>>
extraVars == <<smp>>
drawVars == <<dcall, ncall>>
vbeVars == <<bga, plog, bpc, mapped>>
fontVars == <<fpc, fargs, fstr, pen, flog>>
bumpVars == <<bump, binit, live, bret>>
vgaVars == <<vga, vcell, vpanic>>
occVars == <<ocall, nocc>>
auxVars == <<fontVars, bumpVars, vgaVars, occVars>>
vars == <<GL, GD, nops, last, wr, lop, ipc, cm, msk, sh, img, diag,
          ppc, back, ifl, vmode, holder, saved,
          rpc, rk, rgraph, reg, lkh, acq, opc, own, omid,
          smp, dcall, ncall, bga, plog, bpc, mapped,
          fpc, fargs, fstr, pen, flog, bump, binit, live, bret,
          vga, vcell, vpanic, ocall, nocc>>
\* What the operations on the stack, on the single layer, of the bitmap blit
\* and of the print path leave alone.
notStack == <<layerVars, imgVars, printVars, lockVars, extraVars, drawVars,
    vbeVars, auxVars>>
notLayer == <<stackVars, imgVars, printVars, lockVars, extraVars, drawVars,
    vbeVars, auxVars>>
notImg == <<stackVars, printVars, lockVars, extraVars, drawVars,
    vbeVars, auxVars>>
notPrint == <<stackVars, layerVars, imgVars, lockVars, extraVars, drawVars,
    vbeVars, auxVars>>
notLock == <<nops, last, layerVars, imgVars, printVars, extraVars, drawVars,
    vbeVars, auxVars>>
notDraw == <<GL, nops, last, lop, ipc, cm, msk, sh, img, printVars, lockVars,
             extraVars, vbeVars, auxVars>>

----------------------------------------------------------------------------
(* Writer                                                                  *)

WriterNew ==
    [data |-> [x \in Rows |-> [y \in Cols |-> <<DEFAULT_RGB888, FALSE>>]],
     enable |-> FALSE]

\* Writer::display_pixel on the data grid d (x < HEIGHT, y < WIDTH required).
display_pixel(d, x, y, color) == [d EXCEPT ![x][y] = <<color, TRUE>>]

\* A display_pixel_safe that writes the colour and leaves the cell unmarked.
display_pixel_safe_unmarked(d, x, y, color) ==
    IF x < HEIGHT /\ y < WIDTH
    THEN [d EXCEPT ![x][y] = <<color, FALSE>>]
    ELSE d

\* Writer::display_pixel_safe on the data grid d.
display_pixel_safe(d, x, y, color) ==
    IF x < HEIGHT /\ y < WIDTH
    THEN [d EXCEPT ![x][y] = <<color, TRUE>>]
    ELSE d

\* A rectangle whose extents are taken the conventional way round: the width
\* along the rows and the height along the columns.
display_rect_swapped(d, x, y, w, h, color) ==
    LET x_end == min(x + w, HEIGHT)
        y_end == min(y + h, WIDTH)
    IN  [i \in Rows |-> [j \in Cols |->
            IF x <= i /\ i < x_end /\ y <= j /\ j < y_end
            THEN <<color, TRUE>>
            ELSE d[i][j]]]

\* Writer::display_rect: rows x .. min(x+h, HEIGHT), columns y .. min(y+w, WIDTH).
display_rect(d, x, y, w, h, color) ==
    LET x_end == min(x + h, HEIGHT)
        y_end == min(y + w, WIDTH)
    IN  [i \in Rows |-> [j \in Cols |->
            IF x <= i /\ i < x_end /\ y <= j /\ j < y_end
            THEN <<color, TRUE>>
            ELSE d[i][j]]]

\* 0..n ascending (the range 0..n of the source) and descending ((0..n).rev()).
Ascending(n) == [k \in 1 .. n |-> k - 1]
Descending(n) == [k \in 1 .. n |-> n - k]

\* x_iter and y_iter of Writer::move_to.
x_iter(dx) == IF dx > 0 THEN Ascending(HEIGHT) ELSE Descending(HEIGHT)
y_iter(dy) == IF dy > 0 THEN Ascending(WIDTH) ELSE Descending(WIDTH)

\* The body of the inner loop of move_to at cell (i, j). A negative i - dx or
\* j - dy cast to usize is a huge number, so it fails the comparison.
MoveCell(d, i, j, dx, dy) ==
    IF /\ 0 <= i - dx /\ i - dx < HEIGHT
       /\ 0 <= j - dy /\ j - dy < WIDTH
    THEN [d EXCEPT ![i][j] = d[i - dx][j - dy]]
    ELSE [d EXCEPT ![i][j] = <<DEFAULT_RGB888, FALSE>>]

\* for j in y_iter { ... } on row i, the cells visited one after the other.
RECURSIVE MoveRow(_, _, _, _, _)
MoveRow(d, i, js, dx, dy) ==
    IF js = <<>>
    THEN d
    ELSE MoveRow(MoveCell(d, i, Head(js), dx, dy), i, Tail(js), dx, dy)

\* for i in x_iter { for j in y_iter { ... } }
RECURSIVE MoveRows(_, _, _, _)
MoveRows(d, is, dx, dy) ==
    IF is = <<>>
    THEN d
    ELSE MoveRows(MoveRow(d, Head(is), y_iter(dy), dx, dy), Tail(is), dx, dy)

\* Writer::move_to on the data grid d.
move_to(d, dx, dy) == MoveRows(d, x_iter(dx), dx, dy)

\* The cells in the order the two loops of move_to visit them.
VisitOrder(dx, dy) ==
    [n \in 1 .. HEIGHT * WIDTH |->
        <<x_iter(dx)[((n - 1) \div WIDTH) + 1], y_iter(dy)[((n - 1) % WIDTH) + 1]>>]

----------------------------------------------------------------------------
(* PhysicalWriter::render                                                  *)

\* graph = lock.data.clone() of the top layer; the enable flag is not read.
SeedTop(gl) == gl[Top].data

\* An iteration that mixes a layer in whatever its enable flag says.
MixLayerAlways(graph, w, sx, sy, ex, ey) ==
    [x \in Rows |-> [y \in Cols |->
        IF /\ sx <= x /\ x < ex /\ sy <= y /\ y < ey
           /\ ~graph[x][y][2] /\ w.data[x][y][2]
        THEN w.data[x][y]
        ELSE graph[x][y]]]

\* One iteration of the loop over the layers top-1 .. 1.
MixLayer(graph, w, sx, sy, ex, ey) ==
    IF ~w.enable
    THEN graph
    ELSE [x \in Rows |-> [y \in Cols |->
            IF /\ sx <= x /\ x < ex /\ sy <= y /\ y < ey
               /\ ~graph[x][y][2] /\ w.data[x][y][2]
            THEN w.data[x][y]
            ELSE graph[x][y]]]

\* for layer in (1..len-1).rev(): layers k, k-1, ..., 1 in that order.
RECURSIVE MixDown(_, _, _, _, _, _, _)
MixDown(graph, gl, k, sx, sy, ex, ey) ==
    IF k < 1
    THEN graph
    ELSE MixDown(MixLayer(graph, gl[k], sx, sy, ex, ey), gl, k - 1, sx, sy, ex, ey)

\* A write that combines the colour with the surface content (exclusive-or
\* drawing): writing a colour over itself gives the default colour.
WriteOutXor(gd, graph, sx, sy, ex, ey) ==
    [x \in Rows |-> [y \in Cols |->
        IF sx <= x /\ x < ex /\ sy <= y /\ y < ey
        THEN IF gd[x][y] = graph[x][y][1] THEN DEFAULT_RGB888 ELSE graph[x][y][1]
        ELSE gd[x][y]]]

\* A write-out that skips the cells no layer occupies.
WriteOutOccupied(gd, graph, sx, sy, ex, ey) ==
    [x \in Rows |-> [y \in Cols |->
        IF sx <= x /\ x < ex /\ sy <= y /\ y < ey /\ graph[x][y][2]
        THEN graph[x][y][1]
        ELSE gd[x][y]]]

\* self.0.chars[x][y].write(graph[x][y].0) over the region.
WriteOut(gd, graph, sx, sy, ex, ey) ==
    [x \in Rows |-> [y \in Cols |->
        IF sx <= x /\ x < ex /\ sy <= y /\ y < ey
        THEN graph[x][y][1]
        ELSE gd[x][y]]]

\* A background step that honours the background's enable flag.
ResolveBackgroundIfEnabled(graph, bg, sx, sy, ex, ey) ==
    [x \in Rows |-> [y \in Cols |->
        IF sx <= x /\ x < ex /\ sy <= y /\ y < ey
        THEN <<IF graph[x][y][2] \/ ~bg.enable
               THEN graph[x][y][1] ELSE bg.data[x][y][1],
               graph[x][y][2]>>
        ELSE graph[x][y]]]

\* graph[x][y].0 = if graph[x][y].1 { graph[x][y].0 } else { tomix[x][y].0 }
ResolveBackground(graph, bg, sx, sy, ex, ey) ==
    [x \in Rows |-> [y \in Cols |->
        IF sx <= x /\ x < ex /\ sy <= y /\ y < ey
        THEN <<IF graph[x][y][2] THEN graph[x][y][1] ELSE bg.data[x][y][1],
               graph[x][y][2]>>
        ELSE graph[x][y]]]

\* The four steps of render on a region that passed the bounds guard.
Composite(gd, gl, sx, sy, ex, ey) ==
    LET graph0 == SeedTop(gl)
        graph1 == MixDown(graph0, gl, Top - 1, sx, sy, ex, ey)
        graph2 == ResolveBackground(graph1, gl[0], sx, sy, ex, ey)
    IN  WriteOut(gd, graph2, sx, sy, ex, ey)

\* A render that clips the end of the region to the surface.
renderClipped(gd, gl, sx, sy, ex, ey) ==
    IF sx < HEIGHT /\ sy < WIDTH
    THEN Composite(gd, gl, sx, sy, min(ex, HEIGHT), min(ey, WIDTH))
    ELSE gd

render(gd, gl, sx, sy, ex, ey) ==
    IF sx < HEIGHT /\ sy < WIDTH /\ ex <= HEIGHT /\ ey <= WIDTH
    THEN IF NumLayers = 0
         THEN gd
         ELSE Composite(gd, gl, sx, sy, ex, ey)
    ELSE gd

----------------------------------------------------------------------------
(* The layer stack and the physical surface                                *)

\* again: the operation is a render that directly follows a render of the
\* same region.
NoOp == [op |-> "init", sx |-> 0, sy |-> 0, ex |-> 0, ey |-> 0, again |-> FALSE]

StackInit ==
    /\ GL = [l \in Layers |-> WriterNew]
    /\ GD = [x \in Rows |-> [y \in Cols |-> VRAM]]
    /\ nops = [paint |-> 0, enable |-> 0, render |-> 0]
    /\ last = NoOp

\* GL.read()[l].lock().display_pixel(x, y, c), the caller keeping x, y in bounds
Paint ==
    /\ nops.paint < MaxPaints
    /\ \E l \in Layers, x \in Rows, y \in Cols, c \in Colors :
        /\ GL' = [GL EXCEPT ![l].data = display_pixel(@, x, y, c)]
        /\ nops' = [nops EXCEPT !.paint = @ + 1]
        /\ last' = [NoOp EXCEPT !.op = "paint"]
        /\ UNCHANGED <<GD, notStack>>

\* GL.read()[l].lock().enable = b
SetEnable ==
    /\ nops.enable < MaxEnables
    /\ \E l \in Layers, b \in BOOLEAN :
        /\ GL' = [GL EXCEPT ![l].enable = b]
        /\ nops' = [nops EXCEPT !.enable = @ + 1]
        /\ last' = [NoOp EXCEPT !.op = "enable"]
        /\ UNCHANGED <<GD, notStack>>

\* GD.lock().render(sx, sy, ex, ey)
Render ==
    /\ nops.render < MaxRenders
    /\ \E xs \in RowSpans, ys \in ColSpans :
        /\ GD' = render(GD, GL, xs[1], ys[1], xs[2], ys[2])
        /\ nops' = [nops EXCEPT !.render = @ + 1]
        /\ last' = [op |-> "render", sx |-> xs[1], sy |-> ys[1],
                                     ex |-> xs[2], ey |-> ys[2],
                    again |-> /\ last.op = "render"
                              /\ last.sx = xs[1] /\ last.sy = ys[1]
                              /\ last.ex = xs[2] /\ last.ey = ys[2]]
        /\ UNCHANGED <<GL, notStack>>

StackNext == Paint \/ SetEnable \/ Render

----------------------------------------------------------------------------
(* One layer and the methods of Writer                                     *)

NoCall == [op |-> "new", x |-> 0, y |-> 0, w |-> 0, h |-> 0, color |-> DEFAULT_RGB888]

LayerInit ==
    /\ wr = WriterNew
    /\ lop = NoCall

\* wr.display_pixel(x, y, c), the caller keeping x, y in bounds
DisplayPixel ==
    \E x \in Rows, y \in Cols, c \in Colors :
        /\ wr' = [wr EXCEPT !.data = display_pixel(@, x, y, c)]
        /\ lop' = [NoCall EXCEPT !.op = "display_pixel", !.x = x, !.y = y, !.color = c]
        /\ UNCHANGED notLayer

\* wr.display_pixel_safe(x, y, c)
DisplayPixelSafe ==
    \E x \in 0 .. HEIGHT, y \in 0 .. WIDTH, c \in Colors :
        /\ wr' = [wr EXCEPT !.data = display_pixel_safe(@, x, y, c)]
        /\ lop' = [NoCall EXCEPT !.op = "display_pixel_safe", !.x = x, !.y = y,
                                 !.color = c]
        /\ UNCHANGED notLayer

\* wr.display_rect(x, y, w, h, c)
DisplayRect ==
    \E x \in 0 .. HEIGHT, y \in 0 .. WIDTH, w \in 0 .. WIDTH, h \in 0 .. HEIGHT,
       c \in Colors :
        /\ wr' = [wr EXCEPT !.data = display_rect(@, x, y, w, h, c)]
        /\ lop' = [op |-> "display_rect", x |-> x, y |-> y, w |-> w, h |-> h,
                   color |-> c]
        /\ UNCHANGED notLayer

\* wr.move_to(dx, dy); lop.x and lop.y hold dx and dy
MoveTo ==
    \E dx \in (-HEIGHT) .. HEIGHT, dy \in (-WIDTH) .. WIDTH :
        /\ wr' = [wr EXCEPT !.data = move_to(@, dx, dy)]
        /\ lop' = [NoCall EXCEPT !.op = "move_to", !.x = dx, !.y = dy]
        /\ UNCHANGED notLayer

\* wr.enable = b
LayerEnable ==
    \E b \in BOOLEAN :
        /\ wr' = [wr EXCEPT !.enable = b]
        /\ lop' = [NoCall EXCEPT !.op = "enable"]
        /\ UNCHANGED notLayer

LayerNext == DisplayPixel \/ DisplayPixelSafe \/ DisplayRect \/ MoveTo \/ LayerEnable

----------------------------------------------------------------------------
(* Writer::display_img_32rgba, statement by statement                      *)

MaskBits == 4 * ChanBits
Samples == 0 .. (2 ^ MaskBits - 1)

\* The masks substituted when the header declares none: B, G, R, A from the
\* low bits up, ChanBits bits each.
DefaultMasks ==
    [blue  |-> 2 ^ ChanBits - 1,
     green |-> (2 ^ ChanBits - 1) * 2 ^ ChanBits,
     red   |-> (2 ^ ChanBits - 1) * 2 ^ (2 * ChanBits),
     alpha |-> (2 ^ ChanBits - 1) * 2 ^ (3 * ChanBits)]

\* The values a header may declare for one mask: any u32, of which the model
\* takes 0, each default mask and the all-ones mask.
DeclaredMask ==
    {0, DefaultMasks.blue, DefaultMasks.green, DefaultMasks.red,
     DefaultMasks.alpha, 2 ^ MaskBits - 1}

\* The order in which the four shifts are derived, and what follows each.
AfterChannel == [red |-> "green", green |-> "blue", blue |-> "alpha",
                 alpha |-> "pixels"]
Channels == DOMAIN AfterChannel

\* a & b on naturals.
RECURSIVE BitAnd(_, _)
BitAnd(a, b) ==
    IF a = 0 \/ b = 0
    THEN 0
    ELSE (a % 2) * (b % 2) + 2 * BitAnd(a \div 2, b \div 2)

\* Number of significant bits of n.
RECURSIVE BitLen(_)
BitLen(n) == IF n = 0 THEN 0 ELSE 1 + BitLen(n \div 2)

\* n as f32: exact up to 24 significant bits, else rounded to the nearest
\* value with 24 significant bits, ties to the even one.
F32_MANTISSA == 24
ToF32(n) ==
    IF BitLen(n) <= F32_MANTISSA
    THEN n
    ELSE LET unit == 2 ^ (BitLen(n) - F32_MANTISSA)
             q == n \div unit
             r == n % unit
         IN  IF 2 * r > unit \/ (2 * r = unit /\ q % 2 = 1)
             THEN (q + 1) * unit
             ELSE q * unit

\* ((color & mask) >> shift) as u8
U8_RANGE == 256
Channel(color, mask, shift) == (BitAnd(color, mask) \div 2 ^ shift) % U8_RANGE

\* asize = (cm.alpha >> ar) as f32
ASize == ToF32(cm.alpha \div 2 ^ sh.alpha)

\* alpha > 0.5 for alpha = ((color & cm.alpha) >> ar) as f32 / asize. The two
\* operands are f32 values and asize > 0, so the rounded quotient exceeds 0.5
\* exactly when twice the dividend exceeds the divisor.
AlphaOverHalf(color) ==
    2 * ToF32(BitAnd(color, cm.alpha) \div 2 ^ sh.alpha) > ASize

\* The same test for given masks and shifts.
AlphaOver(color, masks, shifts) ==
    2 * ToF32(BitAnd(color, masks.alpha) \div 2 ^ shifts.alpha)
        > ToF32(masks.alpha \div 2 ^ shifts.alpha)

NoImage == [n |-> 0, k |-> 0]
NoMasks == [red |-> 0, green |-> 0, blue |-> 0, alpha |-> 0]

ImgInit ==
    /\ ipc = "call"
    /\ cm = NoMasks
    /\ msk = 0
    /\ sh = NoMasks
    /\ img = NoImage
    /\ diag = 0

\* wr.display_img_32rgba(x, y, bmp_data) with data RawBmp::from_slice rejects:
\* the error is printed and the call returns.
DecodeError ==
    /\ ipc = "call"
    /\ \E x \in {0, HEIGHT}, y \in {0, WIDTH} :
        /\ ipc' = "done"
        /\ diag' = diag + 1
        /\ lop' = [NoCall EXCEPT !.op = "display_img_32rgba", !.x = x, !.y = y]
        /\ UNCHANGED <<wr, cm, msk, sh, img, notImg>>

\* wr.display_img_32rgba(x, y, bmp_data) with data that decodes: the masks are
\* those of the header, or the default ones when it declares none, and the
\* four shift counters start at 0.
DecodeOk ==
    /\ ipc = "call"
    /\ \E x \in {0, HEIGHT}, y \in {0, WIDTH}, n \in 0 .. MaxPixels,
          declared \in BOOLEAN,
          r \in DeclaredMask, g \in DeclaredMask, b \in DeclaredMask,
          a \in DeclaredMask :
        /\ declared \/ (r = 0 /\ g = 0 /\ b = 0 /\ a = 0)
        /\ cm' = IF declared
                 THEN [red |-> r, green |-> g, blue |-> b, alpha |-> a]
                 ELSE DefaultMasks
        /\ img' = [n |-> n, k |-> 0]
        /\ sh' = NoMasks
        /\ msk' = cm'.red
        /\ ipc' = "red"
        /\ lop' = [NoCall EXCEPT !.op = "display_img_32rgba", !.x = x, !.y = y]
        /\ UNCHANGED <<wr, diag, notImg>>

\* One iteration of `while m & 1 == 0 { shift += 1; m >>= 1; }`. A build that
\* does not check overflow wraps the i32 counter at its largest value.
ShiftLoop ==
    /\ ipc \in Channels
    /\ msk % 2 = 0
    /\ sh' = [sh EXCEPT ![ipc] = IF @ = I32Max THEN -I32Max - 1 ELSE @ + 1]
    /\ msk' = msk \div 2
    /\ UNCHANGED <<wr, lop, ipc, cm, img, diag, notImg>>

\* The same iteration in a build that checks overflow: `shift += 1` panics
\* at the largest i32.
ShiftOverflow ==
    /\ ipc \in Channels
    /\ msk % 2 = 0
    /\ sh[ipc] = I32Max
    /\ ipc' = "panic"
    /\ UNCHANGED <<wr, lop, cm, msk, sh, img, diag, notImg>>

\* The loop condition fails: the next mask is taken up, or the pixel loop
\* starts after the alpha mask.
ShiftExit ==
    /\ ipc \in Channels
    /\ msk % 2 = 1
    /\ ipc' = AfterChannel[ipc]
    /\ msk' = IF ipc' \in Channels THEN cm[ipc'] ELSE msk
    /\ UNCHANGED <<wr, lop, cm, sh, img, diag, notImg>>

\* One iteration of the loop over bmp.pixels(): pixel k of a one-row bitmap is
\* at position (x: k, y: 0) and is painted when its alpha exceeds one half.
DrawSample ==
    /\ ipc = "pixels"
    /\ img.k < img.n
    /\ \E color \in Samples :
        /\ wr' = IF AlphaOverHalf(color)
                 THEN [wr EXCEPT !.data =
                         display_pixel_safe(@, lop.x + 0, lop.y + img.k,
                             <<Channel(color, cm.red, sh.red),
                               Channel(color, cm.green, sh.green),
                               Channel(color, cm.blue, sh.blue)>>)]
                 ELSE wr
        /\ img' = [img EXCEPT !.k = @ + 1]
        /\ UNCHANGED <<lop, ipc, cm, msk, sh, diag, notImg>>

\* bmp.pixels() is exhausted: the call returns.
ImgReturn ==
    /\ ipc = "pixels"
    /\ img.k = img.n
    /\ ipc' = "done"
    /\ UNCHANGED <<wr, lop, cm, msk, sh, img, diag, notImg>>

ImgNext ==
    \/ DecodeError \/ DecodeOk
    \/ ShiftLoop \/ ShiftOverflow \/ ShiftExit
    \/ DrawSample \/ ImgReturn

----------------------------------------------------------------------------
(* Writer::display_img_32rgba as one call, on one-pixel bitmaps whose      *)
(* header declares masks of up to 31 bits (a u32 in the source)            *)

\* What the loop `while m & 1 == 0 { shift += 1; m >>= 1; }` leaves in the
\* counter for a mask that is not 0.
RECURSIVE TrailingZeros(_)
TrailingZeros(m) == IF m % 2 = 1 THEN 0 ELSE 1 + TrailingZeros(m \div 2)

\* Masks a header declares (Some(cm)): 8 bits each of blue, green and red
\* from bit 0 up and 7 bits of alpha from bit 24 up.
ARGB7888 ==
    [blue  |-> 255,
     green |-> 255 * 2 ^ 8,
     red   |-> 255 * 2 ^ 16,
     alpha |-> 127 * 2 ^ 24]

\* Declared headers: the one above, one with an alpha mask of 26 bits and one
\* with a red mask of 9 bits.
WideHeaders ==
    { ARGB7888,
      [ARGB7888 EXCEPT !.alpha = 2 ^ 26 - 1],
      [ARGB7888 EXCEPT !.red = 511 * 2 ^ 16] }

\* Samples: all zero, alpha 63 and 64 of 127, 2^25 (half of the 26-bit
\* alpha range, rounded up), 2^25 + 2^9 and a sample with bit 24 set.
WideSamples ==
    { 0,
      63 * 2 ^ 24 + 255 * 2 ^ 16,
      64 * 2 ^ 24 + 255 * 2 ^ 16 + 1,
      2 ^ 25,
      2 ^ 25 + 2 ^ 9,
      65 * 2 ^ 24 + 255 * 2 ^ 16 + 255 * 2 ^ 8 }

AlphaInit == smp = 0

\* wr.display_img_32rgba(x, y, bmp_data) for a bitmap that decodes to one
\* pixel at position (0, 0).
Blit32 ==
    /\ ipc = "call"
    /\ \E x \in 0 .. HEIGHT, y \in 0 .. WIDTH, masks \in WideHeaders,
          color \in WideSamples :
        LET shifts == [c \in Channels |-> TrailingZeros(masks[c])]
        IN  /\ wr' = IF AlphaOver(color, masks, shifts)
                     THEN [wr EXCEPT !.data =
                             display_pixel_safe(@, x + 0, y + 0,
                                 <<Channel(color, masks.red, shifts.red),
                                   Channel(color, masks.green, shifts.green),
                                   Channel(color, masks.blue, shifts.blue)>>)]
                     ELSE wr
            /\ cm' = masks
            /\ sh' = shifts
            /\ smp' = color
            /\ lop' = [NoCall EXCEPT !.op = "display_img_32rgba", !.x = x, !.y = y]
            /\ img' = [n |-> 1, k |-> 1]
            /\ ipc' = "done"
            /\ UNCHANGED <<msk, diag, stackVars, printVars, lockVars, drawVars,
                           vbeVars, auxVars>>

\* The layer's enable flag, so that calls reach layers in either state.
BlitEnable ==
    \E b \in BOOLEAN :
        /\ wr' = [wr EXCEPT !.enable = b]
        /\ lop' = [NoCall EXCEPT !.op = "enable"]
        /\ UNCHANGED notLayer

AlphaNext == Blit32 \/ BlitEnable

----------------------------------------------------------------------------
(* The drawing methods of PhysicalWriter (on the surface GD) and of Writer *)
(* (on the layer wr), called one after the other                           *)

\* PhysicalWriter::display_pixel (x < HEIGHT, y < WIDTH required).
pw_display_pixel(gd, x, y, color) == [gd EXCEPT ![x][y] = color]

\* A checked write that lands on the transposed cell.
pw_display_pixel_safe_transposed(gd, x, y, color) ==
    IF x < HEIGHT /\ y < WIDTH THEN pw_display_pixel(gd, y, x, color) ELSE gd

\* PhysicalWriter::display_pixel_safe
pw_display_pixel_safe(gd, x, y, color) ==
    IF x < HEIGHT /\ y < WIDTH THEN pw_display_pixel(gd, x, y, color) ELSE gd

\* The cells the loops `for i in x..x_end { for j in y..y_end` of display_rect
\* index, on both receivers.
RectIndexed(x, y, w, h) ==
    {<<i, j>> \in (x .. (min(x + h, HEIGHT) - 1)) \X (y .. (min(y + w, WIDTH) - 1)) :
        TRUE}

\* A rectangle whose rows are counted by w and columns by h.
pw_display_rect_swapped(gd, x, y, w, h, color) ==
    [i \in Rows |-> [j \in Cols |->
        IF <<i, j>> \in RectIndexed(x, y, h, w) THEN color ELSE gd[i][j]]]

\* PhysicalWriter::display_rect
pw_display_rect(gd, x, y, w, h, color) ==
    [i \in Rows |-> [j \in Cols |->
        IF <<i, j>> \in RectIndexed(x, y, w, h) THEN color ELSE gd[i][j]]]

\* The bitmaps handed to display_img: data the decoder rejects, and a
\* one-pixel image (position (0, 0)) of each colour.
Bmps == {[ok |-> FALSE, color |-> DEFAULT_RGB888]}
            \cup {[ok |-> TRUE, color |-> c] : c \in Colors}

\* display_img indexes [x + position.y][y + position.x] unchecked: a pixel
\* outside the grid panics.
ImgPanics(x, y, bmp) == bmp.ok /\ ~(x + 0 < HEIGHT /\ y + 0 < WIDTH)

\* PhysicalWriter::display_img
pw_display_img(gd, x, y, bmp) ==
    IF bmp.ok /\ ~ImgPanics(x, y, bmp)
    THEN pw_display_pixel(gd, x + 0, y + 0, bmp.color)
    ELSE gd

\* A display_img that clears the layer when the decoder fails.
display_img_clearing(d, x, y, bmp) ==
    IF bmp.ok
    THEN IF ImgPanics(x, y, bmp) THEN d ELSE display_pixel(d, x + 0, y + 0, bmp.color)
    ELSE WriterNew.data

\* Writer::display_img
display_img(d, x, y, bmp) ==
    IF bmp.ok
    THEN IF ImgPanics(x, y, bmp) THEN d ELSE display_pixel(d, x + 0, y + 0, bmp.color)
    ELSE d

Receivers == {"PhysicalWriter", "Writer"}

NoDraw == [on |-> "none", op |-> "new", x |-> 0, y |-> 0, w |-> 0, h |-> 0,
           color |-> DEFAULT_RGB888, ok |-> TRUE, res |-> "ret"]

DrawInit ==
    /\ dcall = NoDraw
    /\ ncall = 0

\* A call can be made: the budget is not used up and nothing has panicked.
CanDraw == ncall < MaxCalls /\ dcall.res = "ret"

\* display_pixel_safe(x, y, color) on either receiver.
DrawPixelSafe ==
    /\ CanDraw
    /\ \E on \in Receivers, x \in 0 .. HEIGHT, y \in 0 .. WIDTH, color \in Colors :
        /\ GD' = IF on = "PhysicalWriter"
                 THEN pw_display_pixel_safe(GD, x, y, color) ELSE GD
        /\ wr' = IF on = "Writer"
                 THEN [wr EXCEPT !.data = display_pixel_safe(@, x, y, color)]
                 ELSE wr
        /\ dcall' = [NoDraw EXCEPT !.on = on, !.op = "display_pixel_safe",
                                   !.x = x, !.y = y, !.color = color]
    /\ ncall' = ncall + 1
    /\ UNCHANGED <<diag, notDraw>>

\* display_rect(x, y, w, h, color) on either receiver; PhysicalWriter's prints
\* the clamped rectangle to the diagnostic port first.
DrawRect ==
    /\ CanDraw
    /\ \E on \in Receivers, x \in 0 .. HEIGHT, y \in 0 .. WIDTH,
          w \in 0 .. WIDTH, h \in 0 .. HEIGHT, color \in Colors :
        /\ GD' = IF on = "PhysicalWriter"
                 THEN pw_display_rect(GD, x, y, w, h, color) ELSE GD
        /\ wr' = IF on = "Writer"
                 THEN [wr EXCEPT !.data = display_rect(@, x, y, w, h, color)]
                 ELSE wr
        /\ diag' = IF on = "PhysicalWriter" THEN diag + 1 ELSE diag
        /\ dcall' = [NoDraw EXCEPT !.on = on, !.op = "display_rect",
                                   !.x = x, !.y = y, !.w = w, !.h = h,
                                   !.color = color]
    /\ ncall' = ncall + 1
    /\ UNCHANGED notDraw

\* display_img(x, y, bmp_data) on either receiver: the decoder's error is
\* printed to the diagnostic port; a decoded pixel is written unchecked.
DrawImg ==
    /\ CanDraw
    /\ \E on \in Receivers, x \in 0 .. HEIGHT, y \in 0 .. WIDTH, bmp \in Bmps :
        /\ GD' = IF on = "PhysicalWriter" THEN pw_display_img(GD, x, y, bmp) ELSE GD
        /\ wr' = IF on = "Writer"
                 THEN [wr EXCEPT !.data = display_img(@, x, y, bmp)]
                 ELSE wr
        /\ diag' = IF bmp.ok THEN diag ELSE diag + 1
        /\ dcall' = [NoDraw EXCEPT !.on = on, !.op = "display_img",
                                   !.x = x, !.y = y, !.color = bmp.color,
                                   !.ok = bmp.ok,
                                   !.res = IF ImgPanics(x, y, bmp)
                                           THEN "panic" ELSE "ret"]
    /\ ncall' = ncall + 1
    /\ UNCHANGED notDraw

\* Samples of the one-pixel 32-bit bitmaps drawn here: alpha 0 and alpha 64
\* of 127.
DrawSamples == {0, 64 * 2 ^ 24 + 255 * 2 ^ 16 + 1}

\* wr.display_img_32rgba(x, y, bmp_data): data the decoder rejects, or a
\* one-pixel bitmap that declares the masks ARGB7888.
DrawImg32 ==
    /\ CanDraw
    /\ \E x \in 0 .. HEIGHT, y \in 0 .. WIDTH, ok \in BOOLEAN, color \in DrawSamples :
        LET shifts == [c \in Channels |-> TrailingZeros(ARGB7888[c])]
            rgb == <<Channel(color, ARGB7888.red, shifts.red),
                     Channel(color, ARGB7888.green, shifts.green),
                     Channel(color, ARGB7888.blue, shifts.blue)>>
        IN  /\ ok \/ color = 0
            /\ wr' = IF ok /\ AlphaOver(color, ARGB7888, shifts)
                     THEN [wr EXCEPT !.data = display_pixel_safe(@, x + 0, y + 0, rgb)]
                     ELSE wr
            /\ diag' = IF ok THEN diag ELSE diag + 1
            /\ dcall' = [NoDraw EXCEPT !.on = "Writer", !.op = "display_img_32rgba",
                                       !.x = x, !.y = y, !.ok = ok]
    /\ ncall' = ncall + 1
    /\ UNCHANGED <<GD, notDraw>>

\* wr.enable = b
DrawEnable ==
    /\ dcall.res = "ret"
    /\ \E b \in BOOLEAN : wr' = [wr EXCEPT !.enable = b]
    /\ UNCHANGED <<GD, diag, dcall, ncall, notDraw>>

DrawNext == DrawPixelSafe \/ DrawRect \/ DrawImg \/ DrawImg32 \/ DrawEnable

----------------------------------------------------------------------------
(* The print path: io::_print, graphic::_print and the text-mode printer,  *)
(* run by the kernel and by an interrupt handler on one processor          *)

Contexts == {"main", "irq"}
Locks == {"VIDEO_MODE", "TEXT_WRITER", "WRITER"}

PrintInit ==
    /\ ppc = [main |-> "boot", irq |-> "idle"]
    /\ back = "boot"
    /\ ifl = FALSE
    /\ vmode = "Text"
    /\ holder = [l \in Locks |-> "none"]
    /\ saved = [c \in Contexts |-> FALSE]

\* The context the processor is executing: the handler while an interrupt is
\* being served, the kernel otherwise.
Running(c) == IF ppc.irq = "idle" THEN c = "main" ELSE c = "irq"

\* Start-up installs the handlers and enables interrupts.
EnableInterrupts ==
    /\ Running("main") /\ ppc.main = "boot"
    /\ ifl' = TRUE
    /\ ppc' = [ppc EXCEPT !.main = "run"]
    /\ UNCHANGED <<back, vmode, holder, saved, notPrint>>

\* print!(...) in the kernel, before or after start-up: io::_print is entered.
CallPrint ==
    /\ Running("main") /\ ppc.main \in {"boot", "run"}
    /\ back' = ppc.main
    /\ ppc' = [ppc EXCEPT !.main = "print"]
    /\ UNCHANGED <<ifl, vmode, holder, saved, notPrint>>

\* An interrupt is delivered: the processor clears the interrupt flag and
\* enters the handler, which prints.
Interrupt ==
    /\ ifl /\ ppc.irq = "idle"
    /\ ifl' = FALSE
    /\ ppc' = [ppc EXCEPT !.irq = "print"]
    /\ UNCHANGED <<back, vmode, holder, saved, notPrint>>

\* io::_print: VIDEO_MODE.lock(), a spin lock taken with the interrupt flag
\* left as it is. A context that finds the lock held spins.
LockMode(c) ==
    /\ Running(c) /\ ppc[c] = "print"
    /\ holder["VIDEO_MODE"] = "none"
    /\ holder' = [holder EXCEPT !["VIDEO_MODE"] = c]
    /\ ppc' = [ppc EXCEPT ![c] = "mode_locked"]
    /\ UNCHANGED <<back, ifl, vmode, saved, notPrint>>

\* io::_print: .is_text() is evaluated, the guard is dropped at the end of the
\* condition and the branch is taken.
ReadMode(c) ==
    /\ Running(c) /\ ppc[c] = "mode_locked"
    /\ holder' = [holder EXCEPT !["VIDEO_MODE"] = "none"]
    /\ ppc' = [ppc EXCEPT ![c] = IF vmode = "Text" THEN "vga_mask" ELSE "gfx_mask"]
    /\ UNCHANGED <<back, ifl, vmode, saved, notPrint>>

\* interrupts::without_interrupts: the flag is saved and cleared.
Mask(c, path) ==
    /\ Running(c) /\ ppc[c] = path \o "_mask"
    /\ saved' = [saved EXCEPT ![c] = ifl]
    /\ ifl' = FALSE
    /\ ppc' = [ppc EXCEPT ![c] = path \o "_lock"]
    /\ UNCHANGED <<back, vmode, holder, notPrint>>

\* The lock taken inside without_interrupts.
LockWriter(c, path, lock) ==
    /\ Running(c) /\ ppc[c] = path \o "_lock"
    /\ holder[lock] = "none"
    /\ holder' = [holder EXCEPT ![lock] = c]
    /\ ppc' = [ppc EXCEPT ![c] = path \o "_write"]
    /\ UNCHANGED <<back, ifl, vmode, saved, notPrint>>

\* .write_fmt(args).unwrap(); the guard is dropped at the end of the statement.
WriteFmt(c, path, lock) ==
    /\ Running(c) /\ ppc[c] = path \o "_write"
    /\ holder' = [holder EXCEPT ![lock] = "none"]
    /\ ppc' = [ppc EXCEPT ![c] = path \o "_unmask"]
    /\ UNCHANGED <<back, ifl, vmode, saved, notPrint>>

\* End of without_interrupts: interrupts are enabled again if they were on
\* entry, and the print returns. The kernel goes on where it was; the handler
\* returns from the interrupt, which enables interrupts again.
Unmask(c, path) ==
    /\ Running(c) /\ ppc[c] = path \o "_unmask"
    /\ IF c = "main"
       THEN /\ ifl' = saved[c]
            /\ ppc' = [ppc EXCEPT !.main = back]
       ELSE /\ ifl' = TRUE
            /\ ppc' = [ppc EXCEPT !.irq = "idle"]
    /\ UNCHANGED <<back, vmode, holder, saved, notPrint>>

\* graphic::_print: without_interrupts(|| TEXT_WRITER.lock().write_fmt(args))
GraphicPrint(c) ==
    \/ Mask(c, "gfx")
    \/ LockWriter(c, "gfx", "TEXT_WRITER")
    \/ WriteFmt(c, "gfx", "TEXT_WRITER")
    \/ Unmask(c, "gfx")

\* vga_buffer::_print: without_interrupts(|| WRITER.lock().write_fmt(args))
VgaPrint(c) ==
    \/ Mask(c, "vga")
    \/ LockWriter(c, "vga", "WRITER")
    \/ WriteFmt(c, "vga", "WRITER")
    \/ Unmask(c, "vga")

\* graphic/vbe.rs: the two ports of the adapter, its register indices, the
\* depth written and the value that enables it with the linear frame buffer.
VBE_DISPI_IOPORT_INDEX == 462
VBE_DISPI_IOPORT_DATA == 463
VBE_XRES == 1
VBE_YRES == 2
VBE_BPP == 3
VBE_ENABLE == 4
VBE_BPP_32 == 32
VBE_ENABLED_LFB == 65
VbeRegisters == {VBE_XRES, VBE_YRES, VBE_BPP, VBE_ENABLE}

\* A program that writes the resolution before it disables the adapter.
BgaProgramLate ==
    << <<VBE_XRES, WIDTH>>,
       <<VBE_ENABLE, 0>>,
       <<VBE_YRES, HEIGHT>>,
       <<VBE_BPP, VBE_BPP_32>>,
       <<VBE_ENABLE, VBE_ENABLED_LFB>> >>

\* The calls bga_write_register(index, value) of bga_enter_wide, in order.
BgaProgram ==
    << <<VBE_ENABLE, 0>>,
       <<VBE_XRES, WIDTH>>,
       <<VBE_YRES, HEIGHT>>,
       <<VBE_BPP, VBE_BPP_32>>,
       <<VBE_ENABLE, VBE_ENABLED_LFB>> >>

\* The registers hold what the firmware left (-1) until they are written.
VbeInit ==
    /\ bga = [index |-> -1, regs |-> [r \in VbeRegisters |-> -1]]
    /\ plog = <<>>
    /\ bpc = 0
    /\ mapped = FALSE

\* enter_wide_mode is called (once, by kernel_main after start-up) and calls
\* bga_enter_wide.
EnterWideMode ==
    /\ Running("main") /\ ppc.main = "run" /\ vmode = "Text" /\ bpc = 0
    /\ ppc' = [ppc EXCEPT !.main = "bga"]
    /\ UNCHANGED <<back, ifl, vmode, holder, saved, notPrint>>

\* bga_write_register: outw(VBE_DISPI_IOPORT_INDEX, index)
BgaWriteIndex ==
    /\ Running("main") /\ ppc.main = "bga"
    /\ bpc < 2 * Len(BgaProgram) /\ bpc % 2 = 0
    /\ LET index == BgaProgram[(bpc \div 2) + 1][1]
       IN  /\ plog' = Append(plog, <<VBE_DISPI_IOPORT_INDEX, index>>)
           /\ bga' = [bga EXCEPT !.index = index]
    /\ bpc' = bpc + 1
    /\ UNCHANGED <<mapped, printVars, stackVars, layerVars, imgVars, lockVars,
                   extraVars, drawVars, auxVars>>

\* bga_write_register: outw(VBE_DISPI_IOPORT_DATA, value); the adapter stores
\* the value in the register the index port selects.
BgaWriteData ==
    /\ Running("main") /\ ppc.main = "bga"
    /\ bpc < 2 * Len(BgaProgram) /\ bpc % 2 = 1
    /\ LET value == BgaProgram[(bpc \div 2) + 1][2]
       IN  /\ plog' = Append(plog, <<VBE_DISPI_IOPORT_DATA, value>>)
           /\ bga' = [bga EXCEPT !.regs[bga.index] = value]
    /\ bpc' = bpc + 1
    /\ UNCHANGED <<mapped, printVars, stackVars, layerVars, imgVars, lockVars,
                   extraVars, drawVars, auxVars>>

\* pci_find_device and pci_config_read_u32: the frame buffer's address.
PciLookup ==
    /\ Running("main") /\ ppc.main = "bga"
    /\ bpc = 2 * Len(BgaProgram)
    /\ ppc' = [ppc EXCEPT !.main = "map"]
    /\ UNCHANGED <<back, ifl, vmode, holder, saved, notPrint>>

\* A mapping that returns without having mapped.
MapSkipped(m) == m

\* The window after create_graphic_memory_mapping returned.
MapDone(m) == TRUE

\* create_graphic_memory_mapping maps every page; bga_enter_wide returns.
MapFrameBuffer ==
    /\ Running("main") /\ ppc.main = "map"
    /\ mapped' = MapDone(mapped)
    /\ ppc' = [ppc EXCEPT !.main = "wide_lock"]
    /\ UNCHANGED <<bga, plog, bpc, back, ifl, vmode, holder, saved,
                   stackVars, layerVars, imgVars, lockVars, extraVars, drawVars, auxVars>>

\* map_to fails: expect() panics, the panic handler prints and halts.
MapFails ==
    /\ Running("main") /\ ppc.main = "map"
    /\ back' = "halt"
    /\ ppc' = [ppc EXCEPT !.main = "print"]
    /\ UNCHANGED <<ifl, vmode, holder, saved, notPrint>>

\* enter_wide_mode, after bga_enter_wide: VIDEO_MODE.lock() ...
WideLock ==
    /\ Running("main") /\ ppc.main = "wide_lock" /\ vmode = "Text"
    /\ holder["VIDEO_MODE"] = "none"
    /\ holder' = [holder EXCEPT !["VIDEO_MODE"] = "main"]
    /\ ppc' = [ppc EXCEPT !.main = "wide_locked"]
    /\ UNCHANGED <<back, ifl, vmode, saved, notPrint>>

\* ... .set_graphic(); the guard is dropped at the end of the statement.
SetGraphic ==
    /\ Running("main") /\ ppc.main = "wide_locked"
    /\ vmode' = "Graphic"
    /\ holder' = [holder EXCEPT !["VIDEO_MODE"] = "none"]
    /\ ppc' = [ppc EXCEPT !.main = "run"]
    /\ UNCHANGED <<back, ifl, saved, notPrint>>

IoPrint == \E c \in Contexts : LockMode(c) \/ ReadMode(c)
GraphicPrintStep == \E c \in Contexts : GraphicPrint(c)
VgaPrintStep == \E c \in Contexts : VgaPrint(c)

PrintNext ==
    \/ EnableInterrupts \/ CallPrint \/ Interrupt
    \/ IoPrint \/ GraphicPrintStep \/ VgaPrintStep
    \/ EnterWideMode \/ BgaWriteIndex \/ BgaWriteData
    \/ PciLookup \/ MapFrameBuffer \/ MapFails
    \/ WideLock \/ SetGraphic

----------------------------------------------------------------------------
(* PhysicalWriter::render statement by statement, with the layers' locks,  *)
(* next to a layer owner that draws on a layer                             *)

\* Mutex::lock succeeded for party c on layer k.
Acquire(h, k, c) == [h EXCEPT ![k] = c]

\* A guard that is never dropped.
ReleaseKept(h, k) == h

\* The guard of layer k is dropped.
Release(h, k) == [h EXCEPT ![k] = "none"]

NoRegion == [sx |-> 0, sy |-> 0, ex |-> 0, ey |-> 0]

\* Regions render is called with here: the whole surface, its first cell and
\* a region that ends past the surface.
LockRegions ==
    { [sx |-> 0, sy |-> 0, ex |-> HEIGHT, ey |-> WIDTH],
      [sx |-> 0, sy |-> 0, ex |-> 1, ey |-> 1],
      [sx |-> 0, sy |-> 0, ex |-> HEIGHT + 1, ey |-> WIDTH] }

LockInit ==
    /\ rpc = "idle"
    /\ rk = 0
    /\ rgraph = WriterNew.data
    /\ reg = NoRegion
    /\ lkh = [k \in Layers |-> "none"]
    /\ acq = <<>>
    /\ opc = "idle"
    /\ own = 0
    /\ omid = FALSE

\* render(sx, sy, ex, ey) is called; a region that fails the bounds guard
\* returns at once.
RenderCall ==
    /\ rpc = "idle"
    /\ \E r \in LockRegions :
        /\ reg' = r
        /\ rpc' = IF r.sx < HEIGHT /\ r.sy < WIDTH /\ r.ex <= HEIGHT /\ r.ey <= WIDTH
                  THEN "lock_top" ELSE "done"
    /\ UNCHANGED <<GL, GD, rk, rgraph, lkh, acq, opc, own, omid, notLock>>

\* let lock = p_lock[p_lock.len() - 1].lock();
LockTop ==
    /\ rpc = "lock_top"
    /\ lkh[Top] = "none"
    /\ lkh' = Acquire(lkh, Top, "render")
    /\ acq' = Append(acq, Top)
    /\ rpc' = "clone"
    /\ UNCHANGED <<GL, GD, rk, rgraph, reg, opc, own, omid, notLock>>

\* let mut rgraph = Box::new(lock.data.clone());
CloneTop ==
    /\ rpc = "clone"
    /\ rgraph' = SeedTop(GL)
    /\ rpc' = "drop_top"
    /\ UNCHANGED <<GL, GD, rk, reg, lkh, acq, opc, own, omid, notLock>>

\* drop(lock); the loop starts at layer len - 2.
DropTop ==
    /\ rpc = "drop_top"
    /\ lkh' = Release(lkh, Top)
    /\ rk' = Top - 1
    /\ rpc' = "loop"
    /\ UNCHANGED <<GL, GD, rgraph, reg, acq, opc, own, omid, notLock>>

\* for layer in (1..len-1).rev() { let lock = p_lock[layer].lock();
LockLayer ==
    /\ rpc = "loop" /\ rk >= 1
    /\ lkh[rk] = "none"
    /\ lkh' = Acquire(lkh, rk, "render")
    /\ acq' = Append(acq, rk)
    /\ rpc' = "mix"
    /\ UNCHANGED <<GL, GD, rk, rgraph, reg, opc, own, omid, notLock>>

\* if !lock.enable { continue } ... the scan of the layer over the region.
ScanLayer ==
    /\ rpc = "mix"
    /\ rgraph' = MixLayer(rgraph, GL[rk], reg.sx, reg.sy, reg.ex, reg.ey)
    /\ rpc' = "drop_layer"
    /\ UNCHANGED <<GL, GD, rk, reg, lkh, acq, opc, own, omid, notLock>>

\* End of the loop body: the guard goes out of scope.
DropLayer ==
    /\ rpc = "drop_layer"
    /\ lkh' = Release(lkh, rk)
    /\ rk' = rk - 1
    /\ rpc' = "loop"
    /\ UNCHANGED <<GL, GD, rgraph, reg, acq, opc, own, omid, notLock>>

\* let tomix = &p_lock[0].lock().data; the guard lives to the end of the block.
LockBackground ==
    /\ rpc = "loop" /\ rk < 1
    /\ lkh[0] = "none"
    /\ lkh' = Acquire(lkh, 0, "render")
    /\ acq' = Append(acq, 0)
    /\ rpc' = "resolve"
    /\ UNCHANGED <<GL, GD, rk, rgraph, reg, opc, own, omid, notLock>>

\* The loop that fills the unoccupied cells from the background.
ScanBackground ==
    /\ rpc = "resolve"
    /\ rgraph' = ResolveBackground(rgraph, GL[0], reg.sx, reg.sy, reg.ex, reg.ey)
    /\ rpc' = "write"
    /\ UNCHANGED <<GL, GD, rk, reg, lkh, acq, opc, own, omid, notLock>>

\* The loop that writes the region to the surface.
WriteSurface ==
    /\ rpc = "write"
    /\ GD' = WriteOut(GD, rgraph, reg.sx, reg.sy, reg.ex, reg.ey)
    /\ rpc' = "drop_bg"
    /\ UNCHANGED <<GL, rk, rgraph, reg, lkh, acq, opc, own, omid, notLock>>

\* End of the block: the background's guard is dropped.
DropBackground ==
    /\ rpc = "drop_bg"
    /\ lkh' = Release(lkh, 0)
    /\ rpc' = "done"
    /\ UNCHANGED <<GL, GD, rk, rgraph, reg, acq, opc, own, omid, notLock>>

\* render returns; its locals are gone.
RenderReturn ==
    /\ rpc = "done"
    /\ rpc' = "idle"
    /\ rk' = 0
    /\ rgraph' = WriterNew.data
    /\ reg' = NoRegion
    /\ acq' = <<>>
    /\ omid' = FALSE
    /\ UNCHANGED <<GL, GD, lkh, opc, own, notLock>>

\* The layer the owner's guard is for.
OwnerLayer == CHOOSE k \in Layers : lkh[k] = "owner"

\* GL.read()[k].lock() by a layer owner.
OwnerLock ==
    /\ opc = "idle" /\ own < MaxOwner
    /\ \E k \in Layers :
        /\ lkh[k] = "none"
        /\ lkh' = Acquire(lkh, k, "owner")
    /\ opc' = "locked"
    /\ UNCHANGED <<GL, GD, rpc, rk, rgraph, reg, acq, own, omid, notLock>>

\* The owner draws a pixel on its layer, or sets its enable flag, through the
\* guard.
OwnerChange ==
    /\ opc = "locked"
    /\ \/ \E x \in Rows, y \in Cols, color \in Colors :
            GL' = [GL EXCEPT ![OwnerLayer].data = display_pixel(@, x, y, color)]
       \/ \E b \in BOOLEAN : GL' = [GL EXCEPT ![OwnerLayer].enable = b]
    /\ own' = own + 1
    /\ omid' = (omid \/ rpc = "loop")
    /\ opc' = "drawn"
    /\ UNCHANGED <<GD, rpc, rk, rgraph, reg, lkh, acq, notLock>>

\* End of the owner's statement: its guard is dropped.
OwnerUnlock ==
    /\ opc = "drawn"
    /\ lkh' = Release(lkh, OwnerLayer)
    /\ opc' = "idle"
    /\ UNCHANGED <<GL, GD, rpc, rk, rgraph, reg, acq, own, omid, notLock>>

LockNext ==
    \/ RenderCall \/ LockTop \/ CloneTop \/ DropTop
    \/ LockLayer \/ ScanLayer \/ DropLayer
    \/ LockBackground \/ ScanBackground \/ WriteSurface \/ DropBackground
    \/ RenderReturn
    \/ OwnerLock \/ OwnerChange \/ OwnerUnlock

----------------------------------------------------------------------------
(* Specifications                                                          *)

\* The layer stack composited onto the physical surface.
----------------------------------------------------------------------------
(* Writer::display_font and Writer::display_font_string                    *)

\* The longest string passed to display_font_string.
MaxStr == 3

\* What get_font returns for the characters of the font, at the size of the
\* call: the advance width in halves of a pixel, the left edge of the exact
\* bounding box, and the pixels (v, u) of the bounding box whose coverage is
\* above 0.5, v counting rows and u counting columns.
Font ==
    << [advance_width |-> 1, min_x |-> 0, ink |-> {<<0, 0>>}],
       [advance_width |-> 3, min_x |-> 0, ink |-> {<<0, 0>>, <<0, 1>>}],
       [advance_width |-> 2, min_x |-> 1, ink |-> {<<0, 0>>, <<1, 0>>}] >>
Chars == 1 .. Len(Font)
get_font(ch) == Font[ch]

\* The strings of at most n characters.
RECURSIVE Strings(_)
Strings(n) ==
    IF n = 0 THEN {<<>>}
    ELSE LET shorter == Strings(n - 1)
         IN  shorter \cup {Append(s, ch) : s \in shorter, ch \in Chars}

\* hm.advance_width as usize: the fraction of the advance width is dropped.
AsUsize(advance_width) == advance_width \div 2

\* glyph.draw(|y, x, v| if v > 0.5 { display_pixel_safe(..) }) over the pixels
\* of the glyph, one call of the closure after the other.
RECURSIVE DrawInk(_, _, _, _, _)
DrawInk(d, ink, x0, y0, color) ==
    IF ink = {} THEN d
    ELSE LET p == CHOOSE q \in ink : TRUE
         IN  DrawInk(display_pixel_safe(d, x0 + p[1], y0 + p[2], color),
                     ink \ {p}, x0, y0, color)

\* Writer::display_font with x_offset = line_height + bbox.min.y.
display_font(d, glyph, x_pos, y_pos, x_offset, color) ==
    DrawInk(d, glyph.ink, x_offset + x_pos, y_pos + glyph.min_x, color)

\* y_pos += hm.advance_width as usize, the gap of one column left out.
NextPenNoGap(y_pos, hm) == y_pos + AsUsize(hm.advance_width)

\* y_pos += hm.advance_width as usize + 1usize
NextPen(y_pos, hm) == y_pos + AsUsize(hm.advance_width) + 1

NoString == [s |-> <<>>, x_pos |-> 0, y_pos |-> 0, x_offset |-> 0,
             color |-> DEFAULT_RGB888]

FontInit ==
    /\ fpc = "idle"
    /\ fargs = NoString
    /\ fstr = <<>>
    /\ pen = 0
    /\ flog = <<>>

notFont == <<stackVars, lop, imgVars, printVars, lockVars, extraVars, drawVars,
             vbeVars, bumpVars, vgaVars, occVars>>

\* wr.display_font_string(s, x_pos, y_pos, size, line_height, color) is
\* entered: let mut y_pos = y_pos; s.chars()
FontCall ==
    /\ fpc = "idle"
    /\ \E s \in Strings(MaxStr), x_pos \in Rows, y_pos \in 0 .. WIDTH,
          x_offset \in 0 .. 1, color \in {RED, BLUE} :
        /\ fargs' = [s |-> s, x_pos |-> x_pos, y_pos |-> y_pos,
                     x_offset |-> x_offset, color |-> color]
        /\ fstr' = s
        /\ pen' = y_pos
    /\ fpc' = "loop"
    /\ UNCHANGED <<flog, wr, notFont>>

\* One turn of the loop with y_pos < WIDTH: the character is drawn at the pen
\* and the pen advances.
FontDraw ==
    /\ fpc = "loop"
    /\ fstr # <<>>
    /\ ~ (pen >= WIDTH)
    /\ LET ch == Head(fstr)
           glyph == get_font(ch)
       IN  /\ wr' = [wr EXCEPT !.data = display_font(@, glyph, fargs.x_pos, pen,
                                                     fargs.x_offset, fargs.color)]
           /\ flog' = Append(flog, <<ch, pen>>)
           /\ pen' = NextPen(pen, glyph)
    /\ fstr' = Tail(fstr)
    /\ UNCHANGED <<fpc, fargs, notFont>>

\* if y_pos >= WIDTH { return; }
FontReturnEarly ==
    /\ fpc = "loop"
    /\ fstr # <<>>
    /\ pen >= WIDTH
    /\ fpc' = "done"
    /\ UNCHANGED <<fargs, fstr, pen, flog, wr, notFont>>

\* s.chars() is exhausted: the loop and the call end.
FontReturn ==
    /\ fpc = "loop"
    /\ fstr = <<>>
    /\ fpc' = "done"
    /\ UNCHANGED <<fargs, fstr, pen, flog, wr, notFont>>

FontNext == FontCall \/ FontDraw \/ FontReturnEarly \/ FontReturn

----------------------------------------------------------------------------
(* allocator::bump::BumpAllocator                                          *)

\* Addresses are AddrBits wide; heaps are at most MaxHeap bytes long.
AddrBits == 4
MaxHeap == 6
AddrLimit == 2 ^ AddrBits

\* ptr::null_mut()
NULL == 0

\* Layout: a size that is not zero and an alignment that is a power of two.
\* The largest size makes alloc_start + size leave the address range.
Sizes == {1, 2, 3, AddrLimit - 1}
Aligns == {1, 2, 4}

\* align_up(addr, align) = (addr + align - 1) & !(align - 1): for a power of
\* two, clearing the low bits of v takes v down to a multiple of align.
align_up(addr, align) ==
    LET v == (addr + align - 1) % AddrLimit
    IN  v - (v % align)

\* alloc_start.checked_add(size): None (the empty sequence) when the sum
\* leaves the address range, Some(end) (a sequence of one) otherwise.
None == <<>>
Some(v) == <<v>>
checked_add(a, b) == IF a + b >= AddrLimit THEN None ELSE Some(a + b)

\* BumpAllocator::new()
BumpNew == [heap_start |-> 0, heap_end |-> 0, next |-> 0, allocations |-> 0]

\* BumpAllocator::init
init(b, heap_start, heap_size) ==
    [b EXCEPT !.heap_start = heap_start,
              !.heap_end = heap_start + heap_size,
              !.next = heap_start]

\* GlobalAlloc::alloc: the allocator after the call, and the pointer returned.
alloc(b, size, align) ==
    LET alloc_start == align_up(b.next, align)
        alloc_end == checked_add(alloc_start, size)
    IN  IF alloc_end = None THEN [bump |-> b, ptr |-> NULL]
        ELSE IF alloc_end[1] > b.heap_end THEN [bump |-> b, ptr |-> NULL]
        ELSE [bump |-> [b EXCEPT !.next = alloc_end[1],
                                 !.allocations = @ + 1],
              ptr |-> alloc_start]

\* A dealloc that takes next back to heap_start whatever the count is.
dealloc_reset(b) ==
    [b EXCEPT !.allocations = @ - 1, !.next = b.heap_start]

\* GlobalAlloc::dealloc
dealloc(b) ==
    LET n == b.allocations - 1
    IN  [b EXCEPT !.allocations = n,
                  !.next = IF n = 0 THEN b.heap_start ELSE @]

NoBumpCall == [op |-> "none", size |-> 0, align |-> 1, ptr |-> NULL,
               next |-> 0, allocations |-> 0]

BumpInit ==
    /\ bump = BumpNew
    /\ binit = FALSE
    /\ live = {}
    /\ bret = NoBumpCall

notBump == <<stackVars, layerVars, imgVars, printVars, lockVars, extraVars,
             drawVars, vbeVars, fontVars, vgaVars, occVars>>

\* ALLOCATOR.lock().init(heap_start, heap_size), called once.
BumpInitCall ==
    /\ ~ binit
    /\ \E heap_start \in 1 .. 3, heap_size \in 0 .. MaxHeap :
        bump' = init(bump, heap_start, heap_size)
    /\ binit' = TRUE
    /\ bret' = [NoBumpCall EXCEPT !.op = "init"]
    /\ UNCHANGED <<live, notBump>>

\* alloc(layout): a block that is handed out is live until it is freed.
BumpAlloc ==
    /\ binit
    /\ \E size \in Sizes, align \in Aligns :
        LET r == alloc(bump, size, align)
        IN  /\ bump' = r.bump
            /\ live' = IF r.ptr = NULL THEN live
                       ELSE live \cup {[start |-> r.ptr, end |-> r.ptr + size]}
            /\ bret' = [op |-> "alloc", size |-> size, align |-> align,
                        ptr |-> r.ptr, next |-> bump.next,
                        allocations |-> bump.allocations]
    /\ UNCHANGED <<binit, notBump>>

\* dealloc(ptr, layout) of a live block.
BumpDealloc ==
    /\ binit
    /\ \E blk \in live :
        /\ bump' = dealloc(bump)
        /\ live' = live \ {blk}
        /\ bret' = [op |-> "dealloc", size |-> blk.end - blk.start, align |-> 1,
                    ptr |-> blk.start, next |-> bump.next,
                    allocations |-> bump.allocations]
    /\ UNCHANGED <<binit, notBump>>

BumpNext == BumpInitCall \/ BumpAlloc \/ BumpDealloc

----------------------------------------------------------------------------
(* vga_buffer::Writer                                                      *)

\* The text buffer, scaled down, and the highest row_position followed.
BUFFER_HEIGHT == 2
BUFFER_WIDTH == 5
MaxRow == 4
TAB_SIZE == 4

\* Bytes: backspace, tab, newline, carriage return, a printable byte, and the
\* blank clear_row writes.
BS == 8
TAB == 9
LF == 10
CR == 13
LETTER == 65
BLANK == 32
Bytes == {BS, TAB, LF, CR, LETTER}

TextRows == 0 .. BUFFER_HEIGHT - 1
TextCols == 0 .. BUFFER_WIDTH - 1

\* The Writer print_something builds, on a blank screen.
VgaWriterNew ==
    [row_position |-> 0, column_position |-> 0,
     chars |-> [r \in TextRows |-> [c \in TextCols |-> BLANK]]]

\* Writer::clear_row
clear_row(chars, row) ==
    [chars EXCEPT ![row] = [c \in TextCols |-> BLANK]]

\* The scrolling loop of new_line: rows 0 .. BUFFER_HEIGHT - 2 in ascending
\* order, each taking the row below it.
ScrollUp(chars) ==
    [r \in TextRows |->
        IF r < BUFFER_HEIGHT - 1 THEN chars[r + 1] ELSE chars[r]]

\* Writer::new_line
new_line(w) ==
    LET row == w.row_position + 1
    IN  IF row >= BUFFER_HEIGHT
        THEN [row_position |-> row, column_position |-> 0,
              chars |-> clear_row(ScrollUp(w.chars), BUFFER_HEIGHT - 1)]
        ELSE [w EXCEPT !.row_position = row, !.column_position = 0]

\* Writer::backspace
backspace(w) ==
    IF w.column_position > 0
    THEN [w EXCEPT !.column_position = @ - 1]
    ELSE w

\* Writer::carriage_return
carriage_return(w) == [w EXCEPT !.column_position = 0]

\* Writer::horizontal_tab
horizontal_tab(w) ==
    LET col == w.column_position + (TAB_SIZE - (w.column_position % TAB_SIZE))
        t == [w EXCEPT !.column_position = col]
    IN  IF col >= BUFFER_WIDTH THEN new_line(t) ELSE t

\* The arm `byte => { .. }` of write_byte up to the cell it indexes.
BeforeCellWrite(w) ==
    IF w.column_position >= BUFFER_WIDTH THEN new_line(w) ELSE w

\* self.buffer.chars[row][col] is inside the array.
CellInside(row, col) == row < BUFFER_HEIGHT /\ col < BUFFER_WIDTH

\* Writer::write_byte, the indexing being inside the array.
write_byte(w, byte) ==
    IF byte = BS THEN backspace(w)
    ELSE IF byte = TAB THEN horizontal_tab(w)
    ELSE IF byte = LF THEN new_line(w)
    ELSE IF byte = CR THEN carriage_return(w)
    ELSE LET n == BeforeCellWrite(w)
         IN  [n EXCEPT !.chars[n.row_position][n.column_position] = byte,
                       !.column_position = @ + 1]

VgaInit ==
    /\ vga = VgaWriterNew
    /\ vcell = <<0, 0>>
    /\ vpanic = FALSE

notVga == <<stackVars, layerVars, imgVars, printVars, lockVars, extraVars,
            drawVars, vbeVars, fontVars, bumpVars, occVars>>

\* write_byte(byte) for a byte that moves the cursor only.
WriteControl ==
    /\ ~ vpanic
    /\ vga.row_position < MaxRow
    /\ \E byte \in {BS, TAB, LF, CR} :
        vga' = write_byte(vga, byte)
    /\ UNCHANGED <<vcell, vpanic, notVga>>

\* write_byte(byte) for a printable byte whose cell is inside the buffer.
WritePrintable ==
    /\ ~ vpanic
    /\ vga.row_position < MaxRow
    /\ LET n == BeforeCellWrite(vga)
       IN  /\ CellInside(n.row_position, n.column_position)
           /\ vcell' = <<n.row_position, n.column_position>>
    /\ vga' = write_byte(vga, LETTER)
    /\ UNCHANGED <<vpanic, notVga>>

\* write_byte(byte) for a printable byte whose cell is outside the buffer:
\* indexing the array panics, after new_line ran if the column was full.
WritePanics ==
    /\ ~ vpanic
    /\ vga.row_position < MaxRow
    /\ LET n == BeforeCellWrite(vga)
       IN  /\ ~ CellInside(n.row_position, n.column_position)
           /\ vcell' = <<n.row_position, n.column_position>>
           /\ vga' = n
    /\ vpanic' = TRUE
    /\ UNCHANGED notVga

VgaNext == WriteControl \/ WritePrintable \/ WritePanics

----------------------------------------------------------------------------
(* The operations on the layers of GL, one call after the other            *)

\* Number of calls followed.
MaxOcc == 2

\* Writer::display_img_32rgba on the data grid d, for data the decoder rejects
\* (ok = FALSE) or a one-pixel bitmap that declares the masks ARGB7888.
display_img_32rgba(d, x, y, ok, color) ==
    LET shifts == [c \in Channels |-> TrailingZeros(ARGB7888[c])]
        rgb == <<Channel(color, ARGB7888.red, shifts.red),
                 Channel(color, ARGB7888.green, shifts.green),
                 Channel(color, ARGB7888.blue, shifts.blue)>>
    IN  IF ok /\ AlphaOver(color, ARGB7888, shifts)
        THEN display_pixel_safe(d, x + 0, y + 0, rgb)
        ELSE d

\* before: the data of the layer as the call found it.
NoLayerCall == [op |-> "new", layer |-> 0, before |-> WriterNew.data,
                res |-> "ret"]

OccInit ==
    /\ ocall = NoLayerCall
    /\ nocc = 0

notOcc == <<nops, last, layerVars, imgVars, printVars, lockVars, extraVars,
            drawVars, vbeVars, fontVars, bumpVars, vgaVars>>

\* A call can be made: the budget is not used up and nothing has panicked.
CanCall == nocc < MaxOcc /\ ocall.res = "ret"

LayerCall(op, l) == [op |-> op, layer |-> l, before |-> GL[l].data, res |-> "ret"]

\* GL.read()[l].lock().display_pixel(x, y, c), the caller keeping x, y in bounds
OccPixel ==
    /\ CanCall
    /\ \E l \in Layers, x \in Rows, y \in Cols, c \in Colors :
        /\ GL' = [GL EXCEPT ![l].data = display_pixel(@, x, y, c)]
        /\ ocall' = LayerCall("display_pixel", l)
    /\ nocc' = nocc + 1
    /\ UNCHANGED <<GD, notOcc>>

\* GL.read()[l].lock().display_pixel_safe(x, y, c)
OccPixelSafe ==
    /\ CanCall
    /\ \E l \in Layers, x \in 0 .. HEIGHT, y \in 0 .. WIDTH, c \in Colors :
        /\ GL' = [GL EXCEPT ![l].data = display_pixel_safe(@, x, y, c)]
        /\ ocall' = LayerCall("display_pixel_safe", l)
    /\ nocc' = nocc + 1
    /\ UNCHANGED <<GD, notOcc>>

\* GL.read()[l].lock().display_rect(x, y, w, h, c)
OccRect ==
    /\ CanCall
    /\ \E l \in Layers, x \in 0 .. HEIGHT, y \in 0 .. WIDTH,
          w \in 0 .. WIDTH, h \in 0 .. HEIGHT, c \in Colors :
        /\ GL' = [GL EXCEPT ![l].data = display_rect(@, x, y, w, h, c)]
        /\ ocall' = LayerCall("display_rect", l)
    /\ nocc' = nocc + 1
    /\ UNCHANGED <<GD, notOcc>>

\* GL.read()[l].lock().display_img(x, y, bmp_data); a pixel outside the grid
\* panics.
OccImg ==
    /\ CanCall
    /\ \E l \in Layers, x \in 0 .. HEIGHT, y \in 0 .. WIDTH, bmp \in Bmps :
        /\ GL' = [GL EXCEPT ![l].data = display_img(@, x, y, bmp)]
        /\ ocall' = [LayerCall("display_img", l) EXCEPT
                        !.res = IF ImgPanics(x, y, bmp) THEN "panic" ELSE "ret"]
    /\ nocc' = nocc + 1
    /\ UNCHANGED <<GD, notOcc>>

\* GL.read()[l].lock().display_img_32rgba(x, y, bmp_data)
OccImg32 ==
    /\ CanCall
    /\ \E l \in Layers, x \in 0 .. HEIGHT, y \in 0 .. WIDTH, ok \in BOOLEAN,
          color \in DrawSamples :
        /\ ok \/ color = 0
        /\ GL' = [GL EXCEPT ![l].data = display_img_32rgba(@, x, y, ok, color)]
        /\ ocall' = LayerCall("display_img_32rgba", l)
    /\ nocc' = nocc + 1
    /\ UNCHANGED <<GD, notOcc>>

\* GL.read()[l].lock().display_font(glyph, x_pos, y_pos, size, line_height, c)
OccFont ==
    /\ CanCall
    /\ \E l \in Layers, ch \in Chars, x_pos \in Rows, y_pos \in 0 .. WIDTH,
          c \in Colors :
        /\ GL' = [GL EXCEPT ![l].data = display_font(@, get_font(ch), x_pos,
                                                     y_pos, 0, c)]
        /\ ocall' = LayerCall("display_font", l)
    /\ nocc' = nocc + 1
    /\ UNCHANGED <<GD, notOcc>>

\* GL.read()[l].lock().move_to(dx, dy)
OccMove ==
    /\ CanCall
    /\ \E l \in Layers, dx \in (-HEIGHT) .. HEIGHT, dy \in (-WIDTH) .. WIDTH :
        /\ GL' = [GL EXCEPT ![l].data = move_to(@, dx, dy)]
        /\ ocall' = LayerCall("move_to", l)
    /\ nocc' = nocc + 1
    /\ UNCHANGED <<GD, notOcc>>

\* GL.read()[l].lock().enable = b
OccEnable ==
    /\ CanCall
    /\ \E l \in Layers, b \in BOOLEAN :
        /\ GL' = [GL EXCEPT ![l].enable = b]
        /\ ocall' = LayerCall("enable", l)
    /\ nocc' = nocc + 1
    /\ UNCHANGED <<GD, notOcc>>

\* GD.lock().render(sx, sy, ex, ey)
OccRender ==
    /\ CanCall
    /\ \E xs \in RowSpans, ys \in ColSpans :
        GD' = render(GD, GL, xs[1], ys[1], xs[2], ys[2])
    /\ ocall' = LayerCall("render", Top)
    /\ nocc' = nocc + 1
    /\ UNCHANGED <<GL, notOcc>>

OccNext ==
    \/ OccPixel \/ OccPixelSafe \/ OccRect \/ OccImg \/ OccImg32 \/ OccFont
    \/ OccMove \/ OccEnable \/ OccRender

Init ==
    /\ StackInit /\ LayerInit /\ ImgInit /\ PrintInit /\ LockInit
    /\ AlphaInit /\ DrawInit /\ VbeInit /\ FontInit
    /\ BumpInit /\ VgaInit /\ OccInit
Next == StackNext
Spec == Init /\ [][Next]_vars

\* One layer driven through the methods of Writer.
SpecLayer == Init /\ [][LayerNext]_vars

\* One call of display_img_32rgba on a fresh layer. In SpecImgFair the
\* processor keeps executing the call: a step that is possible is eventually
\* taken.
SpecImg == Init /\ [][ImgNext]_vars
SpecImgFair == SpecImg /\ WF_vars(ImgNext)

\* The kernel printing, with an interrupt handler that prints too.
SpecPrint == Init /\ [][PrintNext]_vars

\* render, statement by statement, interleaved with a layer owner.
SpecLock == Init /\ [][LockNext]_vars

\* display_img_32rgba on bitmaps of full sample width.
SpecAlpha == Init /\ [][AlphaNext]_vars

\* The drawing methods of the surface and of a layer.
SpecDraw == Init /\ [][DrawNext]_vars

\* One call of display_font_string on a fresh layer.
SpecFont == Init /\ [][FontNext]_vars

\* The bump allocator: init once, then alloc and dealloc in any order.
SpecBump == Init /\ [][BumpNext]_vars

\* Bytes written one after the other through vga_buffer::Writer.
SpecVga == Init /\ [][VgaNext]_vars

\* Calls on the layers of GL, and render, in any order.
SpecOcc == Init /\ [][OccNext]_vars

----------------------------------------------------------------------------
(* Properties of render                                                    *)

Max(S) == CHOOSE m \in S : \A n \in S : n <= m

\* The last operation was a render whose region passed the bounds guard, so
\* GL is the stack that render composited and GD the surface it left.
Rendered ==
    /\ last.op = "render"
    /\ last.sx < HEIGHT /\ last.sy < WIDTH
    /\ last.ex <= HEIGHT /\ last.ey <= WIDTH

InRegion(x, y) ==
    /\ last.sx <= x /\ x < last.ex
    /\ last.sy <= y /\ y < last.ey

\* The non-background layers that are enabled and occupied at (x, y).
Painters(x, y) == {l \in 1 .. Top : GL[l].enable /\ GL[l].data[x][y][2]}

\* C1: top-wins. After a render, every cell of the region that is occupied in
\* some enabled non-background layer shows the colour of the highest-indexed
\* enabled layer occupying it.
C1_TopWins ==
    Rendered =>
        \A x \in Rows, y \in Cols :
            (InRegion(x, y) /\ Painters(x, y) # {}) =>
                GD[x][y] = GL[Max(Painters(x, y))].data[x][y][1]

\* Layer k of the stack with every cell unoccupied (colours kept).
Unoccupied(gl, k) ==
    [gl EXCEPT ![k].data =
        [x \in Rows |-> [y \in Cols |-> <<gl[k].data[x][y][1], FALSE>>]]]

\* C2: a disabled layer contributes nothing. After a render, for every
\* non-background layer k (the top one included) whose enable flag is false,
\* the cells of the region hold the colours the render would have written had
\* every cell of layer k been unoccupied.
C2_DisabledLayerHidden ==
    Rendered =>
        \A k \in 1 .. Top :
            ~GL[k].enable =>
                \A x \in Rows, y \in Cols :
                    InRegion(x, y) =>
                        GD[x][y] = render(GD, Unoccupied(GL, k), last.sx, last.sy,
                                          last.ex, last.ey)[x][y]

\* No layer above the background contributes to cell (x, y): the top layer is
\* unoccupied there and so is every enabled layer between it and the background.
Uncovered(x, y) ==
    /\ ~GL[Top].data[x][y][2]
    /\ \A l \in 1 .. (Top - 1) : ~(GL[l].enable /\ GL[l].data[x][y][2])

\* The stack with the background's occupancy bits and enable flag replaced.
WithBackground(gl, occ, en) ==
    [gl EXCEPT ![0] =
        [data |-> [x \in Rows |-> [y \in Cols |-> <<gl[0].data[x][y][1], occ[x][y]>>]],
         enable |-> en]]

\* Occupancy grids tried for the background: all set, all clear, all flipped.
BackgroundBits ==
    {[x \in Rows |-> [y \in Cols |-> TRUE]],
     [x \in Rows |-> [y \in Cols |-> FALSE]],
     [x \in Rows |-> [y \in Cols |-> ~GL[0].data[x][y][2]]]}

\* C3: background fallback. After a render, every cell of the region left
\* unoccupied by the layers above the background shows layer 0's stored
\* colour, and the same render of a stack that differs only in layer 0's
\* occupancy bits and enable flag produces the same surface.
C3_BackgroundFallback ==
    Rendered =>
        /\ \A x \in Rows, y \in Cols :
              (InRegion(x, y) /\ Uncovered(x, y)) => GD[x][y] = GL[0].data[x][y][1]
        /\ \A occ \in BackgroundBits, en \in BOOLEAN :
              render(GD, WithBackground(GL, occ, en), last.sx, last.sy,
                     last.ex, last.ey) = GD

\* A render showed a painted, disabled background under an uncovered cell and
\* the default colour of a never-painted background cell next to it.
C3_Witness ==
    /\ Rendered
    /\ ~GL[0].enable
    /\ \E x \in Rows, y \in Cols :
          /\ InRegion(x, y) /\ Uncovered(x, y)
          /\ GL[0].data[x][y] = <<BLUE, TRUE>> /\ GD[x][y] = BLUE
    /\ \E x \in Rows, y \in Cols :
          /\ InRegion(x, y) /\ Uncovered(x, y)
          /\ ~GL[0].data[x][y][2] /\ GD[x][y] = DEFAULT_RGB888

\* C5: compositing is idempotent. A render that directly follows a render of
\* the same region, the stack not having been modified in between, leaves
\* every cell of the physical surface as the first render left it.
C5_Idempotent ==
    [][(last'.op = "render" /\ last'.again) => GD' = GD]_vars

\* The same non-empty region was rendered twice in a row over a painted stack.
C5_Witness ==
    /\ Rendered
    /\ last.again
    /\ \E x \in Rows, y \in Cols : InRegion(x, y) /\ GD[x][y] \in Colors

\* The region of the last render starts inside the surface and ends past it.
EndsPast ==
    /\ last.op = "render"
    /\ last.sx < HEIGHT /\ last.sy < WIDTH
    /\ (last.ex > HEIGHT \/ last.ey > WIDTH)

\* C6 as stated: a region that starts in bounds and ends past the surface is
\* clipped, its in-bounds part being composited and written.
C6_Clipped ==
    EndsPast =>
        \A x \in Rows, y \in Cols :
            (/\ last.sx <= x /\ x < min(last.ex, HEIGHT)
             /\ last.sy <= y /\ y < min(last.ey, WIDTH)) =>
                GD[x][y] = Composite(GD, GL, last.sx, last.sy,
                                     min(last.ex, HEIGHT), min(last.ey, WIDTH))[x][y]

\* C6 as amended: a render whose region ends past the surface (ex > HEIGHT or
\* ey > WIDTH) is rejected as a whole and writes no cell of the surface.
C6_Rejected ==
    [][(last'.op = "render" /\ (last'.ex > HEIGHT \/ last'.ey > WIDTH))
          => GD' = GD]_vars

\* A region ending past the surface was rendered over a painted top layer and
\* the surface still holds what it held before any write.
C6_Witness ==
    /\ EndsPast
    /\ \E x \in Rows, y \in Cols : GL[Top].data[x][y][2]
    /\ \A x \in Rows, y \in Cols : GD[x][y] = VRAM

----------------------------------------------------------------------------
(* Properties of the Writer methods                                        *)

\* C4: pan correctness. After move_to(dx, dy) every destination cell whose
\* source (x - dx, y - dy) lies inside the grid holds the value the source had
\* before the call, and every other cell is the default transparent cell.
C4_PanCorrect ==
    [][lop'.op = "move_to" =>
          \A i \in Rows, j \in Cols :
              wr'.data[i][j] =
                  IF /\ 0 <= i - lop'.x /\ i - lop'.x < HEIGHT
                     /\ 0 <= j - lop'.y /\ j - lop'.y < WIDTH
                  THEN wr.data[i - lop'.x][j - lop'.y]
                  ELSE <<DEFAULT_RGB888, FALSE>>]_vars

\* The cells of the rectangle of the last display_rect call.
InRect(i, j) ==
    /\ lop.x <= i /\ i < lop.x + lop.h
    /\ lop.y <= j /\ j < lop.y + lop.w

\* C10: display_rect on an in-bounds rectangle (x + h <= HEIGHT and
\* y + w <= WIDTH) sets every cell of rows [x, x+h) and columns [y, y+w) to
\* (c, occupied) and leaves every other cell and the enable flag unchanged.
C10_DisplayRectInBounds ==
    [][(/\ lop'.op = "display_rect"
        /\ lop'.x + lop'.h <= HEIGHT
        /\ lop'.y + lop'.w <= WIDTH) =>
          /\ \A i \in Rows, j \in Cols :
                wr'.data[i][j] =
                    IF /\ lop'.x <= i /\ i < lop'.x + lop'.h
                       /\ lop'.y <= j /\ j < lop'.y + lop'.w
                    THEN <<lop'.color, TRUE>>
                    ELSE wr.data[i][j]
          /\ wr'.enable = wr.enable]_vars

\* An in-bounds rectangle of unequal sides was drawn on an enabled layer that
\* keeps a cell of another colour and a never-painted cell outside it.
C10_Witness ==
    /\ lop.op = "display_rect"
    /\ lop.x + lop.h <= HEIGHT /\ lop.y + lop.w <= WIDTH
    /\ lop.w > 0 /\ lop.h > 0 /\ lop.w # lop.h
    /\ wr.enable
    /\ \A i \in Rows, j \in Cols : InRect(i, j) => wr.data[i][j] = <<lop.color, TRUE>>
    /\ \E i \in Rows, j \in Cols :
          ~InRect(i, j) /\ wr.data[i][j][2] /\ wr.data[i][j][1] # lop.color
    /\ \E i \in Rows, j \in Cols : ~InRect(i, j) /\ ~wr.data[i][j][2]

----------------------------------------------------------------------------
(* Properties of display_img_32rgba                                        *)

\* C9: display_img_32rgba runs to completion. Whatever masks the header of a
\* decoded bitmap declares (0 included), the four shift derivation loops end
\* and the call returns.
C9_ShiftLoopsTerminate == <>(ipc = "done")

----------------------------------------------------------------------------
(* Properties of the print path                                            *)

PrintLocks == {"VIDEO_MODE", "TEXT_WRITER"}

\* The kernel is inside a call of io::_print.
MainPrinting ==
    ppc.main \notin {"boot", "run", "bga", "map", "wide_lock", "wide_locked", "halt"}

\* C7: interrupt-safe locking on the print path. A lock that io::_print or
\* graphic::_print has taken (VIDEO_MODE, TEXT_WRITER) is held only while
\* interrupts are masked, so the interrupt handler, which prints too, is never
\* entered while the interrupted print holds one of these locks.
C7_PrintLocksMasked ==
    \A l \in PrintLocks :
        (MainPrinting /\ holder[l] = "main") => (~ifl /\ ppc.irq = "idle")

----------------------------------------------------------------------------
(* Properties of the locking in render                                     *)

\* The layers in the order render visits them: top, top-1, ..., 1, 0.
RenderOrder == [i \in 1..NumLayers |-> NumLayers - i]

HeldByRender == {k \in Layers : lkh[k] = "render"}

\* The layer render is scanning, as a set: empty between two scans.
Scanning ==
    IF rpc \in {"clone", "drop_top"} THEN {Top}
    ELSE IF rpc \in {"mix", "drop_layer"} THEN {rk}
    ELSE IF rpc \in {"resolve", "write", "drop_bg"} THEN {0}
    ELSE {}

C8_OneLockInOrder ==
    /\ Cardinality(HeldByRender) <= 1
    /\ HeldByRender = Scanning
    /\ Len(acq) <= NumLayers
    /\ \A i \in 1..Len(acq) : acq[i] = RenderOrder[i]
    /\ (rpc = "done" /\ acq # <<>>) => Len(acq) = NumLayers

C8_NoChangeMidScan ==
    \A k \in Layers :
        (lkh[k] = "render" /\ lkh'[k] = "render") => GL'[k] = GL[k]

\* C8: per-layer locking in render. render takes the layers' locks one at a
\* time in the order top, top-1, ..., 1, 0 and never holds two of them; the
\* layer it is scanning is locked, so nobody changes that layer during the
\* scan; between two scans render holds no layer lock and a layer owner can
\* change a layer.
C8_PerLayerLocking == []C8_OneLockInOrder /\ [][C8_NoChangeMidScan]_vars

\* A render that finished after the owner changed a layer between two scans.
C8_Witness == rpc = "done" /\ omid /\ Len(acq) = NumLayers

----------------------------------------------------------------------------
(* Properties of the 32-bit blit at full sample width                      *)

\* The integer value of a channel: (sample & mask) >> shift.
Field(color, mask, shift) == BitAnd(color, mask) \div 2 ^ shift

\* C11: the alpha threshold of display_img_32rgba. With a the alpha field of
\* the sample and amax the largest alpha the mask allows, a sample with
\* 2a <= amax changes no cell of the layer, and a sample with 2a > amax sets
\* its target cell, when that is inside the grid, to the colour made of the
\* sample's red, green and blue fields, occupied, and changes nothing else.
C11_AlphaThreshold ==
    [][lop'.op = "display_img_32rgba" =>
        LET a == Field(smp', cm'.alpha, sh'.alpha)
            amax == cm'.alpha \div 2 ^ sh'.alpha
            colour == <<Field(smp', cm'.red, sh'.red),
                        Field(smp', cm'.green, sh'.green),
                        Field(smp', cm'.blue, sh'.blue)>>
        IN  /\ a <= amax - a => wr' = wr
            /\ (a > amax - a /\ lop'.x < HEIGHT /\ lop'.y < WIDTH) =>
                 /\ wr'.data = [wr.data EXCEPT ![lop'.x][lop'.y] = <<colour, TRUE>>]
                 /\ wr'.enable = wr.enable]_vars

----------------------------------------------------------------------------
(* Properties of the drawing methods on both receivers                     *)

\* A call was just made.
Called(op) == ncall' = ncall + 1 /\ dcall'.op = op

\* C12: a decode failure is not fatal and paints nothing. When the decoder
\* rejects the data, display_img on the surface, display_img on a layer and
\* display_img_32rgba on a layer each print one diagnostic, leave every cell
\* of the surface and of the layer and the layer's enable flag as they were,
\* and return.
C12_DecodeFailure ==
    [][\A op \in {"display_img", "display_img_32rgba"} :
         (Called(op) /\ ~dcall'.ok) =>
            /\ diag' = diag + 1
            /\ GD' = GD
            /\ wr' = wr
            /\ dcall'.res = "ret"]_vars

\* The decoder rejected the data handed to the named method of the named
\* receiver, called on a target that holds a painted cell.
DecodeFailedOn(on, op) ==
    /\ dcall.on = on /\ dcall.op = op /\ ~dcall.ok
    /\ diag >= 1
    /\ IF on = "Writer"
       THEN \E x \in Rows, y \in Cols : wr.data[x][y][2]
       ELSE \E x \in Rows, y \in Cols : GD[x][y] \in Colors

C12_Witness == DecodeFailedOn("Writer", "display_img")

\* C13: the checked pixel write. display_pixel_safe(x, y, c) on the surface
\* and on a layer changes nothing and returns when x >= HEIGHT or y >= WIDTH;
\* otherwise it changes only cell (x, y): to c on the surface, to
\* (c, occupied) on a layer.
C13_CheckedPixelWrite ==
    [][Called("display_pixel_safe") =>
        LET c == dcall'
            inside == c.x < HEIGHT /\ c.y < WIDTH
        IN  /\ c.res = "ret"
            /\ ~inside => (GD' = GD /\ wr' = wr)
            /\ (inside /\ c.on = "PhysicalWriter") =>
                 (GD' = [GD EXCEPT ![c.x][c.y] = c.color] /\ wr' = wr)
            /\ (inside /\ c.on = "Writer") =>
                 /\ wr'.data = [wr.data EXCEPT ![c.x][c.y] = <<c.color, TRUE>>]
                 /\ wr'.enable = wr.enable
                 /\ GD' = GD]_vars

\* A checked write outside the grid was made on a surface that holds a
\* painted cell.
C13_Witness ==
    /\ dcall.op = "display_pixel_safe" /\ dcall.on = "PhysicalWriter"
    /\ dcall.x >= HEIGHT
    /\ \E x \in Rows, y \in Cols : GD[x][y] \in Colors

\* Cell (i, j) lies in rows [x, min(x+h, HEIGHT)) and columns
\* [y, min(y+w, WIDTH)) of the call c.
Clamped(c, i, j) ==
    /\ c.x <= i /\ i < c.x + c.h /\ i < HEIGHT
    /\ c.y <= j /\ j < c.y + c.w /\ j < WIDTH

\* C17: rectangle clamping. display_rect(x, y, w, h, c) on the surface and on
\* a layer overwrites exactly the cells in rows [x, min(x+h, HEIGHT)) and
\* columns [y, min(y+w, WIDTH)), indexes no cell outside the grid, and changes
\* nothing when x >= HEIGHT or y >= WIDTH.
C17_RectangleClamping ==
    [][Called("display_rect") =>
        LET c == dcall'
        IN  /\ c.res = "ret"
            /\ RectIndexed(c.x, c.y, c.w, c.h) \subseteq Rows \X Cols
            /\ c.on = "PhysicalWriter" =>
                 /\ \A i \in Rows, j \in Cols :
                      GD'[i][j] = IF Clamped(c, i, j) THEN c.color ELSE GD[i][j]
                 /\ wr' = wr
            /\ c.on = "Writer" =>
                 /\ \A i \in Rows, j \in Cols :
                      wr'.data[i][j] = IF Clamped(c, i, j)
                                       THEN <<c.color, TRUE>> ELSE wr.data[i][j]
                 /\ wr'.enable = wr.enable
                 /\ GD' = GD
            /\ (c.x >= HEIGHT \/ c.y >= WIDTH) => (GD' = GD /\ wr' = wr)]_vars

\* A rectangle of unequal sides that reaches past the last row was drawn on a
\* surface that keeps a cell of the other colour.
C17_Witness ==
    /\ dcall.op = "display_rect" /\ dcall.on = "PhysicalWriter"
    /\ dcall.w # dcall.h /\ dcall.x + dcall.h > HEIGHT /\ dcall.x < HEIGHT
    /\ dcall.w > 0 /\ dcall.y < WIDTH
    /\ \E x \in Rows, y \in Cols : GD[x][y] \in Colors \ {dcall.color}

----------------------------------------------------------------------------
(* Properties of the traversal of move_to                                  *)

\* Some visit of move_to(dx, dy) reads, as its source, a cell that an earlier
\* visit of the same call has written.
ReadsOverwritten(dx, dy) ==
    LET order == VisitOrder(dx, dy)
    IN  \E p \in DOMAIN order, q \in DOMAIN order :
            /\ p < q
            /\ order[p] = <<order[q][1] - dx, order[q][2] - dy>>

\* C14: pan traversal order. During move_to(dx, dy) no cell is read as a
\* source after the same call has overwritten it (which visiting the rows in
\* descending order when dx > 0 and ascending otherwise, and the columns
\* likewise for dy, would give).
C14_PanTraversal ==
    [][lop'.op = "move_to" => ~ReadsOverwritten(lop'.x, lop'.y)]_vars

----------------------------------------------------------------------------
(* Properties of render: the colour chosen and the cells written           *)

\* The enabled layers strictly between the background and the top that are
\* occupied at (x, y).
Between(x, y) == {l \in 1 .. (Top - 1) : GL[l].enable /\ GL[l].data[x][y][2]}

\* The colour of the four-step algorithm at (x, y).
FourStep(x, y) ==
    IF GL[Top].data[x][y][2]
    THEN GL[Top].data[x][y][1]
    ELSE IF Between(x, y) # {}
         THEN GL[Max(Between(x, y))].data[x][y][1]
         ELSE GL[0].data[x][y][1]

Footprint ==
    {<<x, y>> \in (last'.sx .. (last'.ex - 1)) \X (last'.sy .. (last'.ey - 1)) : TRUE}

\* C16: render's write footprint. A render whose region passes the bounds
\* guard writes every surface cell of rows [sx, ex) and columns [sy, ey),
\* occupied or not, leaves every other surface cell unchanged, writes nothing
\* when the region is empty, indexes no cell outside the grid and changes no
\* layer.
C16_WriteFootprint ==
    [][(/\ last'.op = "render" /\ nops'.render = nops.render + 1
        /\ last'.sx < HEIGHT /\ last'.sy < WIDTH
        /\ last'.ex <= HEIGHT /\ last'.ey <= WIDTH) =>
          /\ Footprint \subseteq Rows \X Cols
          /\ \A x \in Rows, y \in Cols :
                IF <<x, y>> \in Footprint
                THEN GD'[x][y] # VRAM
                ELSE GD'[x][y] = GD[x][y]
          /\ (last'.sx >= last'.ex \/ last'.sy >= last'.ey) => GD' = GD
          /\ GL' = GL]_vars

\* A render of part of the surface wrote a cell no layer occupies and left a
\* cell outside the region as it was before the first write.
C16_Witness ==
    /\ Rendered
    /\ \E x \in Rows, y \in Cols :
          /\ InRegion(x, y)
          /\ \A l \in Layers : ~GL[l].data[x][y][2]
          /\ GD[x][y] = DEFAULT_RGB888
    /\ \E x \in Rows, y \in Cols : ~InRegion(x, y) /\ GD[x][y] = VRAM

----------------------------------------------------------------------------
(* Properties of the mode switch                                           *)

\* Context c is inside the graphic text writer's print, or inside the
\* text-mode writer's print.
InGraphicPrint(c) == ppc[c] \in {"gfx_mask", "gfx_lock", "gfx_write", "gfx_unmask"}
InVgaPrint(c) == ppc[c] \in {"vga_mask", "vga_lock", "vga_write", "vga_unmask"}

\* bga_enter_wide has made all its port writes and the window is mapped.
BgaCompleted == bpc = 2 * Len(BgaProgram) /\ mapped

C18_Routed ==
    /\ vmode = "Graphic" => BgaCompleted
    /\ \A c \in Contexts :
          /\ InGraphicPrint(c) => (vmode = "Graphic" /\ mapped)
          /\ InVgaPrint(c) => vmode = "Text"

C18_OneWay ==
    /\ vmode = "Graphic" => vmode' = "Graphic"
    /\ vmode' # vmode => ppc.main = "wide_locked"

\* C18: display mode routing. VIDEO_MODE starts as Text, becomes Graphic only
\* in enter_wide_mode once bga_enter_wide (mode switch and mapping) has
\* completed, and never goes back to Text; a print goes to the text-mode
\* writer while the mode is Text and to the graphic text writer afterwards,
\* so no print is on the graphic path before the window is mapped.
C18_ModeRouting == vmode = "Text" /\ []C18_Routed /\ [][C18_OneWay]_vars

\* A print is writing through the graphic text writer.
C18_Witness == \E c \in Contexts : ppc[c] = "gfx_write" /\ holder["TEXT_WRITER"] = c

\* The registers in the order the protocol writes them.
ProtocolOrder == <<VBE_ENABLE, VBE_XRES, VBE_YRES, VBE_BPP, VBE_ENABLE>>

C19_Ordered ==
    /\ Len(plog) <= 2 * Len(ProtocolOrder)
    /\ \A i \in 1 .. Len(plog) :
          IF i % 2 = 1
          THEN plog[i] = <<VBE_DISPI_IOPORT_INDEX, ProtocolOrder[(i + 1) \div 2]>>
          ELSE plog[i][1] = VBE_DISPI_IOPORT_DATA
    /\ Len(plog) >= 2 => plog[2][2] = 0
    /\ Len(plog) = 2 * Len(ProtocolOrder) => plog[Len(plog)][2] = VBE_ENABLED_LFB
    /\ (ppc.main = "map" \/ mapped) => bga.regs[VBE_ENABLE] = VBE_ENABLED_LFB

C19_WhileDisabled ==
    (/\ Len(plog') = Len(plog) + 1
     /\ plog'[Len(plog')][1] = VBE_DISPI_IOPORT_DATA
     /\ bga.index \in {VBE_XRES, VBE_YRES, VBE_BPP}) => bga.regs[VBE_ENABLE] = 0

\* C19: order of the mode-switch protocol. bga_enter_wide writes Enable = 0,
\* then Xres, Yres and Bpp, then Enable = 0x41, each as a write of the index
\* port directly followed by a write of the data port; resolution and depth
\* are written only while the adapter is disabled, and the PCI lookup and the
\* mapping come only after it is enabled again.
C19_RegisterProtocol == []C19_Ordered /\ [][C19_WhileDisabled]_vars

\* The whole protocol ran and the window was mapped.
C19_Witness == mapped /\ Len(plog) = 2 * Len(ProtocolOrder)

\* C20: colour depth agreement. The bits per pixel that bga_enter_wide writes
\* to the adapter are 24, the three bytes (r, g, b) of a surface cell.
C20_DepthIs24 == bga.regs[VBE_BPP] # -1 => bga.regs[VBE_BPP] = 3 * 8

----------------------------------------------------------------------------
(* Properties of display_font_string                                       *)

\* The pen column of the k-th character of s when the pen starts at y_pos and
\* moves by the truncated advance width plus one after each character.
RECURSIVE PenAt(_, _, _)
PenAt(s, y_pos, k) ==
    IF k = 1 THEN y_pos
    ELSE PenAt(s, y_pos, k - 1) + (Font[s[k - 1]].advance_width \div 2) + 1

\* The layer after the characters logged in drawn were blitted at their pen
\* columns on row x0 of a fresh layer, nothing carried over to another row.
Blitted(drawn, x0, color) ==
    [i \in Rows |-> [j \in Cols |->
        IF \E k \in 1 .. Len(drawn) : \E p \in Font[drawn[k][1]].ink :
               /\ i = x0 + p[1]
               /\ j = drawn[k][2] + Font[drawn[k][1]].min_x + p[2]
        THEN <<color, TRUE>>
        ELSE <<DEFAULT_RGB888, FALSE>>]]

\* C21: display_font_string takes the characters left to right with a pen that
\* starts at y_pos; a character is drawn only while the pen is below WIDTH, the
\* pen then moves by the truncated advance width plus one, and once the pen
\* is at WIDTH or beyond the call returns with no further character drawn and
\* nothing wrapped to another row.
C21_PenRule ==
    /\ Len(flog) <= Len(fargs.s)
    /\ \A k \in 1 .. Len(flog) :
        /\ flog[k] = <<fargs.s[k], PenAt(fargs.s, fargs.y_pos, k)>>
        /\ flog[k][2] < WIDTH
    /\ fpc = "loop" => pen = PenAt(fargs.s, fargs.y_pos, Len(flog) + 1)
    /\ fpc = "done" =>
        \/ Len(flog) = Len(fargs.s)
        \/ PenAt(fargs.s, fargs.y_pos, Len(flog) + 1) >= WIDTH
    /\ wr.data = Blitted(flog, fargs.x_offset + fargs.x_pos, fargs.color)

\* The call returned on a pen at WIDTH or beyond with characters left, after
\* it drew a character whose advance width has a fraction.
C21_Witness ==
    /\ fpc = "done"
    /\ pen >= WIDTH
    /\ Len(flog) >= 2
    /\ Len(flog) < Len(fargs.s)
    /\ \E k \in 1 .. Len(flog) : Font[flog[k][1]].advance_width % 2 = 1

----------------------------------------------------------------------------
(* Properties of the bump allocator                                        *)

Overlap(b1, b2) == b1.start < b2.end /\ b2.start < b1.end

\* The block of the last call of alloc, had the call succeeded at the first
\* aligned address at or above the old next.
Fits(call, heap_end) ==
    \E a \in call.next .. call.next + call.align - 1 :
        a % call.align = 0 /\ a + call.size <= heap_end

\* C22: once init was called, heap_start <= next <= heap_end; every live block
\* lies inside [heap_start, heap_end) and overlaps no other live block; an
\* alloc that does not fit returns null and leaves next and the count as they
\* were, one that fits returns a live block; next goes back to heap_start only
\* when the count of live blocks has dropped to 0.
C22_BlockSafety ==
    binit =>
        /\ bump.heap_start <= bump.next /\ bump.next <= bump.heap_end
        /\ bump.allocations = Cardinality(live)
        /\ \A b \in live :
            /\ bump.heap_start <= b.start /\ b.start < b.end
            /\ b.end <= bump.heap_end
            /\ \A c \in live \ {b} : ~ Overlap(b, c)
        /\ bret.op = "alloc" =>
            IF Fits(bret, bump.heap_end)
            THEN /\ bret.ptr # NULL
                 /\ [start |-> bret.ptr, end |-> bret.ptr + bret.size] \in live
                 /\ bret.ptr >= bret.next
                 /\ bump.next = bret.ptr + bret.size
                 /\ bump.allocations = bret.allocations + 1
            ELSE /\ bret.ptr = NULL
                 /\ bump.next = bret.next
                 /\ bump.allocations = bret.allocations
        /\ bret.op = "dealloc" =>
            /\ bump.allocations = bret.allocations - 1
            /\ bump.next = IF bump.allocations = 0 THEN bump.heap_start
                           ELSE bret.next

\* A block was handed out behind alignment padding while another block was
\* live.
C22_Witness ==
    /\ binit
    /\ bret.op = "alloc"
    /\ bret.ptr > bret.next
    /\ Cardinality(live) >= 2

----------------------------------------------------------------------------
(* Properties of the VGA text writer                                       *)

\* C23: whatever bytes were written, row_position < BUFFER_HEIGHT and
\* column_position <= BUFFER_WIDTH, and the cell the last printable byte
\* indexed lies inside the buffer, so that no write panics.
C23_CursorBounds ==
    /\ vga.row_position < BUFFER_HEIGHT
    /\ vga.column_position <= BUFFER_WIDTH
    /\ CellInside(vcell[1], vcell[2])
    /\ ~ vpanic

----------------------------------------------------------------------------
(* Properties of the occupancy flag                                        *)

\* The stack has its fixed number of layers and every grid is HEIGHT x WIDTH.
StackShape ==
    /\ DOMAIN GL = Layers
    /\ \A l \in Layers :
        /\ DOMAIN GL[l].data = Rows
        /\ \A i \in Rows : DOMAIN GL[l].data[i] = Cols

\* This step takes the occupied flag of a cell of layer l from TRUE to FALSE.
Clears(l) ==
    \E i \in Rows, j \in Cols : GL[l].data[i][j][2] /\ ~ GL'[l].data[i][j][2]

\* C24: the layers start with every cell (default colour, unoccupied) and
\* disabled; no call of display_pixel, display_pixel_safe, display_rect,
\* display_img, display_img_32rgba, display_font or render takes a cell from
\* occupied to unoccupied: a step that does is a call of move_to on that
\* layer; the grids stay HEIGHT x WIDTH and the stack keeps its length.
C24_OnlyPanClears ==
    /\ GL = [l \in Layers |-> WriterNew]
    /\ [] StackShape
    /\ [][\A l \in Layers :
            Clears(l) => ocall'.op = "move_to" /\ ocall'.layer = l]_vars

\* move_to has just taken an occupied cell of a layer to unoccupied, on a
\* layer that a drawing call had painted.
C24_Witness ==
    /\ ocall.op = "move_to"
    /\ ocall.res = "ret"
    /\ \E i \in Rows, j \in Cols :
        /\ ocall.before[i][j][2]
        /\ ~ GL[ocall.layer].data[i][j][2]

============================================================================
